---------------------------- MODULE Spec2Model ----------------------------
(***************************************************************************)
(* A model of the service shell of aigroup-econ-mcp: the file parser       *)
(* (tools/file_parser.py), the tool decorators (tools/decorators.py) and   *)
(* the low-level server's call handler (server.py).                        *)
(*                                                                         *)
(* Text is a sequence of characters, each character a one-character        *)
(* string; a character outside ASCII is written "u<code point>", and so is *)
(* the grave accent, "u96".                                                *)
(***************************************************************************)
EXTENDS Integers, Sequences, FiniteSets, TLC

VARIABLES
    pc,             \* position of the call being modelled
    content,        \* parse_file_content: the content argument
    doc,            \* the JSON document content is the json.dumps text of
    file_format,    \* parse_file_content: the file_format argument
    parsed,         \* what the parser returned or raised
    rows,           \* _parse_csv: the rows csv.reader gave
    has_header,     \* _parse_csv: what _has_header answered
    dataset,        \* the in-memory dataset a content was serialized from
    tool_type,      \* convert_to_tool_format: the tool_type argument
    converted,      \* what convert_to_tool_format returned or raised
    flags,          \* econometric_tool: the three composition flags
    wrapped,        \* econometric_tool: the wrappers applied, outermost first
    stack,          \* the wrappers whose call is in progress, outermost first
    tool_name,      \* handle_call_tool: the name argument
    kwargs,         \* the keyword arguments the caller passed
    passed,         \* the keyword arguments passed on to the next wrapper
    called,         \* the tool function was called
    body,           \* what the tool function does when it is called
    log,            \* the messages sent through ctx.info and ctx.error
    outcome,        \* what the call in progress returned or raised
    args,           \* the arguments of a function called on its own
    result          \* what that function returned or raised

toolvars == <<flags, wrapped, stack, tool_name, kwargs, passed, called, body,
              log, outcome>>

callvars == <<args, result>>

vars == <<pc, content, doc, file_format, parsed, rows, has_header, dataset,
          tool_type, converted, toolvars, callvars>>

-----------------------------------------------------------------------------
(* Bounds of the model                                                     *)

MaxLen == 5
MaxKeys == 2
MaxItems == 2
MaxCols == 4
MaxObs == 2

-----------------------------------------------------------------------------
(* Characters and Python's str primitives                                  *)

Printable ==
    << " ", "!", "\"", "#", "$", "%", "&", "'", "(", ")", "*", "+", ",", "-",
       ".", "/", "0", "1", "2", "3", "4", "5", "6", "7", "8", "9", ":", ";",
       "<", "=", ">", "?", "@", "A", "B", "C", "D", "E", "F", "G", "H", "I",
       "J", "K", "L", "M", "N", "O", "P", "Q", "R", "S", "T", "U", "V", "W",
       "X", "Y", "Z", "[", "\\", "]", "^", "_", "u96", "a", "b", "c", "d", "e",
       "f", "g", "h", "i", "j", "k", "l", "m", "n", "o", "p", "q", "r", "s",
       "t", "u", "v", "w", "x", "y", "z", "{", "|", "}", "~" >>

\* chr(cp)
CharOf(cp) ==
    IF cp = 9 THEN "\t"
    ELSE IF cp = 10 THEN "\n"
    ELSE IF cp = 13 THEN "\r"
    ELSE IF cp \in 32..126 THEN Printable[cp - 31]
    ELSE "u" \o ToString(cp)

AsciiChars == {CharOf(cp) : cp \in 0..127}

IsAscii(c) == c \in AsciiChars

\* the code points str.isspace() accepts
WhitespaceCodes ==
    (9..13) \cup (28..32) \cup {133, 160, 5760, 8232, 8233, 8239, 8287, 12288}
            \cup (8192..8202)

WhitespaceChars == {CharOf(cp) : cp \in WhitespaceCodes}

IsSpace(c) == c \in WhitespaceChars

Digits == << "0", "1", "2", "3", "4", "5", "6", "7", "8", "9" >>

DigitChars == {Digits[i] : i \in 1..10}

IsDigit(c) == c \in DigitChars

DigitVal(c) == (CHOOSE i \in 1..10 : Digits[i] = c) - 1

RECURSIVE LStrip(_)
LStrip(t) == IF t # <<>> /\ IsSpace(Head(t)) THEN LStrip(Tail(t)) ELSE t

RECURSIVE RStrip(_)
RStrip(t) ==
    IF t # <<>> /\ IsSpace(t[Len(t)])
    THEN RStrip(SubSeq(t, 1, Len(t) - 1))
    ELSE t

\* str.strip()
Strip(t) == LStrip(RStrip(t))

\* str.count(c) for a one-character c
Count(t, c) == Cardinality({i \in 1..Len(t) : t[i] = c})

\* c in t, for a one-character c
HasChar(t, c) == \E i \in 1..Len(t) : t[i] = c

\* sub in t
HasSub(t, sub) ==
    \E i \in 0..(Len(t) - Len(sub)) : SubSeq(t, i + 1, i + Len(sub)) = sub

\* str.split(sep) for a one-character sep: always at least one piece
RECURSIVE SplitAcc(_, _, _)
SplitAcc(t, sep, cur) ==
    IF t = <<>> THEN <<cur>>
    ELSE IF Head(t) = sep THEN <<cur>> \o SplitAcc(Tail(t), sep, <<>>)
    ELSE SplitAcc(Tail(t), sep, Append(cur, Head(t)))

Split(t, sep) == SplitAcc(t, sep, <<>>)

UpperChars == SubSeq(Printable, 34, 59)

LowerChars == SubSeq(Printable, 66, 91)

\* str.lower(), one character
LowerChar(c) ==
    IF c \in {UpperChars[i] : i \in 1..26}
    THEN LowerChars[CHOOSE i \in 1..26 : UpperChars[i] = c]
    ELSE c

Lower(t) == [i \in 1..Len(t) |-> LowerChar(t[i])]

\* str(n) for a natural number n
RECURSIVE NatText(_)
NatText(n) ==
    IF n < 10 THEN <<Digits[n + 1]>>
    ELSE Append(NatText(n \div 10), Digits[(n % 10) + 1])

\* float(s): the outcome for the strings a model input can hold, an optional
\* sign and decimal digits between optional whitespace
RECURSIVE DigitsVal(_)
DigitsVal(t) ==
    IF t = <<>> THEN 0
    ELSE 10 * DigitsVal(SubSeq(t, 1, Len(t) - 1)) + DigitVal(t[Len(t)])

AllDigits(t) == t # <<>> /\ \A i \in 1..Len(t) : IsDigit(t[i])

ToFloat(t) ==
    LET s == Strip(t)
    IN  IF AllDigits(s) THEN [ok |-> TRUE, val |-> DigitsVal(s)]
        ELSE IF s # <<>> /\ Head(s) = "+" /\ AllDigits(Tail(s))
        THEN [ok |-> TRUE, val |-> DigitsVal(Tail(s))]
        ELSE IF s # <<>> /\ Head(s) = "-" /\ AllDigits(Tail(s))
        THEN [ok |-> TRUE, val |-> 0 - DigitsVal(Tail(s))]
        ELSE [ok |-> FALSE, val |-> 0]

-----------------------------------------------------------------------------
(* base64.b64decode(content).decode(utf-8)                                 *)

B64Chars == SubSeq(Printable, 34, 59) \o SubSeq(Printable, 66, 91)
            \o SubSeq(Printable, 17, 26) \o << "+", "/" >>

B64Alphabet == {B64Chars[i] : i \in 1..64}

IsB64Char(c) == c \in B64Alphabet

B64Val(c) == (CHOOSE i \in 1..64 : B64Chars[i] = c) - 1

\* binascii.a2b_base64, not strict: characters outside the alphabet are
\* skipped, a complete pad ends the input, and leftover sextets are an error.
\* quad is the position in the current group of four, left the bits carried.
RECURSIVE A2B(_, _, _, _, _)
A2B(t, quad, left, pads, out) ==
    IF t = <<>>
    THEN [ok |-> quad = 0, bytes |-> out]
    ELSE LET c == Head(t)
         IN  IF c = "="
             THEN IF quad >= 2 /\ quad + pads + 1 >= 4
                  THEN [ok |-> TRUE, bytes |-> out]
                  ELSE A2B(Tail(t), quad, left,
                           IF quad >= 2 THEN pads + 1 ELSE pads, out)
             ELSE IF ~IsB64Char(c)
             THEN A2B(Tail(t), quad, left, pads, out)
             ELSE LET v == B64Val(c)
                  IN  CASE quad = 0 -> A2B(Tail(t), 1, v, 0, out)
                        [] quad = 1 ->
                            A2B(Tail(t), 2, v % 16, 0,
                                Append(out, left * 4 + (v \div 16)))
                        [] quad = 2 ->
                            A2B(Tail(t), 3, v % 4, 0,
                                Append(out, left * 16 + (v \div 4)))
                        [] quad = 3 ->
                            A2B(Tail(t), 0, 0, 0, Append(out, left * 64 + v))

\* base64.b64decode(s) for a str s: a non-ASCII character is an error
B64Decode(t) ==
    IF \E i \in 1..Len(t) : ~IsAscii(t[i])
    THEN [ok |-> FALSE, bytes |-> <<>>]
    ELSE A2B(t, 0, 0, 0, <<>>)

IsCont(b) == b \in 128..191

\* bytes.decode('utf-8'), strict
RECURSIVE Utf8Decode(_)
Utf8Decode(b) ==
    IF b = <<>> THEN [ok |-> TRUE, text |-> <<>>]
    ELSE
      LET b1 == b[1]
          n  == IF b1 < 128 THEN 1
                ELSE IF b1 \in 194..223 THEN 2
                ELSE IF b1 \in 224..239 THEN 3
                ELSE IF b1 \in 240..244 THEN 4
                ELSE 0
          wellFormed ==
              /\ n > 0
              /\ Len(b) >= n
              /\ \A i \in 2..n : IsCont(b[i])
              /\ (b1 = 224) => (b[2] >= 160)
              /\ (b1 = 237) => (b[2] <= 159)
              /\ (b1 = 240) => (b[2] >= 144)
              /\ (b1 = 244) => (b[2] <= 143)
          cp == CASE n = 1 -> b1
                  [] n = 2 -> (b1 - 192) * 64 + (b[2] - 128)
                  [] n = 3 -> (b1 - 224) * 4096 + (b[2] - 128) * 64
                              + (b[3] - 128)
                  [] n = 4 -> (b1 - 240) * 262144 + (b[2] - 128) * 4096
                              + (b[3] - 128) * 64 + (b[4] - 128)
      IN  IF ~wellFormed THEN [ok |-> FALSE, text |-> <<>>]
          ELSE LET rest == Utf8Decode(SubSeq(b, n + 1, Len(b)))
               IN  [ok |-> rest.ok, text |-> <<CharOf(cp)>> \o rest.text]


-----------------------------------------------------------------------------
(* JSON values, as json.loads returns them                                 *)

JNum(n) == [t |-> "num", n |-> n, s |-> <<>>, keys |-> <<>>, items |-> <<>>]

JStr(s) == [t |-> "str", n |-> 0, s |-> s, keys |-> <<>>, items |-> <<>>]

JNull == [t |-> "null", n |-> 0, s |-> <<>>, keys |-> <<>>, items |-> <<>>]

JBool(b) ==
    [t |-> "bool", n |-> IF b THEN 1 ELSE 0, s |-> <<>>, keys |-> <<>>,
     items |-> <<>>]

JList(items) ==
    [t |-> "list", n |-> 0, s |-> <<>>, keys |-> <<>>, items |-> items]

\* a dict keeps insertion order: keys[i] maps to items[i]
JDict(keys, items) ==
    [t |-> "dict", n |-> 0, s |-> <<>>, keys |-> keys, items |-> items]

\* the content is raw text, not the text of a JSON document of the model
NoDoc == [t |-> "none", n |-> 0, s |-> <<>>, keys |-> <<>>, items |-> <<>>]

IntText(n) == IF n < 0 THEN <<"-">> \o NatText(0 - n) ELSE NatText(n)

RECURSIVE JoinTexts(_, _)
JoinTexts(ts, sep) ==
    IF ts = <<>> THEN <<>>
    ELSE IF Len(ts) = 1 THEN ts[1]
    ELSE ts[1] \o sep \o JoinTexts(Tail(ts), sep)

\* json.dumps(v), default separators
RECURSIVE Dumps(_)
Dumps(v) ==
    CASE v.t = "num" -> IntText(v.n)
      [] v.t = "str" -> <<"\"">> \o v.s \o <<"\"">>
      [] v.t = "null" -> <<"n", "u", "l", "l">>
      [] v.t = "bool" -> IF v.n = 1 THEN <<"t", "r", "u", "e">>
                         ELSE <<"f", "a", "l", "s", "e">>
      [] v.t = "list" ->
            <<"[">> \o JoinTexts([i \in 1..Len(v.items) |-> Dumps(v.items[i])],
                                 <<",", " ">>) \o <<"]">>
      [] v.t = "dict" ->
            <<"{">> \o JoinTexts([i \in 1..Len(v.items) |->
                                    <<"\"">> \o v.keys[i] \o <<"\"", ":", " ">>
                                    \o Dumps(v.items[i])],
                                 <<",", " ">>) \o <<"}">>
      [] OTHER -> <<>>

\* float(v) for a JSON value: a number or a boolean converts, a string
\* converts as float(str) does, anything else is a TypeError
JFloat(v) ==
    CASE v.t = "num" -> [ok |-> TRUE, val |-> v.n]
      [] v.t = "bool" -> [ok |-> TRUE, val |-> v.n]
      [] v.t = "str" -> ToFloat(v.s)
      [] OTHER -> [ok |-> FALSE, val |-> 0]

JsonSpace == {" ", "\t", "\n", "\r"}

RECURSIVE JsonStrip(_)
JsonStrip(t) ==
    IF t # <<>> /\ Head(t) \in JsonSpace THEN JsonStrip(Tail(t))
    ELSE IF t # <<>> /\ t[Len(t)] \in JsonSpace
    THEN JsonStrip(SubSeq(t, 1, Len(t) - 1))
    ELSE t

\* json.loads(text). The text of a document of the model loads as that
\* document; any other text loads only when it is a JSON integer or one of
\* the literals true, false and null (no text of the model holds a bracket,
\* a brace or a quote without being a document's text).
JsonLoads(text, d) ==
    LET s   == JsonStrip(text)
        abs == IF s # <<>> /\ Head(s) = "-" THEN Tail(s) ELSE s
    IN  IF d.t # "none" THEN [ok |-> TRUE, val |-> d]
        ELSE IF AllDigits(abs) /\ (Len(abs) = 1 \/ Head(abs) # "0")
        THEN [ok |-> TRUE, val |-> JNum(ToFloat(s).val)]
        ELSE IF s = <<"t", "r", "u", "e">> THEN [ok |-> TRUE, val |-> JBool(TRUE)]
        ELSE IF s = <<"f", "a", "l", "s", "e">>
        THEN [ok |-> TRUE, val |-> JBool(FALSE)]
        ELSE IF s = <<"n", "u", "l", "l">> THEN [ok |-> TRUE, val |-> JNull]
        ELSE [ok |-> FALSE, val |-> NoDoc]


-----------------------------------------------------------------------------
(* FileParser (tools/file_parser.py)                                       *)

\* a raised exception: its class and its message
Raise(exc, msg) ==
    [ok |-> FALSE, exc |-> exc, msg |-> msg, data |-> <<>>, variables |-> <<>>,
     format |-> "", data_type |-> "", n_variables |-> 0, n_observations |-> 0]

\* the messages of the parser's errors
MsgCsvEmpty == "CSV file is empty"
MsgCsvNoData == "CSV file has no data"
MsgCsvNoNumeric == "no valid numeric data in the CSV file"
MsgCannotDetect == "cannot detect the file format, declare it"
MsgJsonSyntax == "JSON format error"
MsgJsonUnsupported == "unsupported JSON data format"
MsgBadFormat == "unsupported file format"

\* dict assignment d[name] = vals on an insertion-ordered dict, held as a
\* sequence of [name, vals]
DictSet(d, name, vals) ==
    IF \E i \in 1..Len(d) : d[i].name = name
    THEN [i \in 1..Len(d) |->
            IF d[i].name = name THEN [name |-> name, vals |-> vals] ELSE d[i]]
    ELSE Append(d, [name |-> name, vals |-> vals])

Delimiters == << ",", "\t", ";", "|" >>

\* FileParser._detect_delimiter: the most frequent delimiter of the line, the
\* earliest of the list on a tie
DetectDelimiter(line) ==
    LET best == CHOOSE i \in 1..4 :
                   /\ \A j \in 1..4 :
                        Count(line, Delimiters[j]) <= Count(line, Delimiters[i])
                   /\ \A j \in 1..(i - 1) :
                        Count(line, Delimiters[j]) < Count(line, Delimiters[i])
    IN  Delimiters[best]

\* list(csv.reader(io.StringIO(text), delimiter=delimiter)) for a text that
\* holds no quote and no carriage return: one row per line, an empty line is
\* an empty row, and the text's last newline opens no further row
CsvReader(text, delimiter) ==
    LET pieces == Split(text, "\n")
        lines  == IF pieces[Len(pieces)] = <<>>
                  THEN SubSeq(pieces, 1, Len(pieces) - 1)
                  ELSE pieces
    IN  [i \in 1..Len(lines) |->
            IF lines[i] = <<>> THEN <<>> ELSE Split(lines[i], delimiter)]

\* FileParser._has_header
HasHeader(rs) ==
    IF Len(rs) < 2 THEN FALSE
    ELSE \E i \in 1..Len(rs[1]) : ~ToFloat(Strip(rs[1][i])).ok

TimeKeywords ==
    << <<"t", "i", "m", "e">>, <<"d", "a", "t", "e">>, <<"y", "e", "a", "r">>,
       <<"m", "o", "n", "t", "h">>, <<"d", "a", "y">>,
       <<"p", "e", "r", "i", "o", "d">>,
       <<"q", "u", "a", "r", "t", "e", "r">> >>

EntityKeywords ==
    << <<"i", "d">>, <<"e", "n", "t", "i", "t", "y">>, <<"f", "i", "r", "m">>,
       <<"c", "o", "m", "p", "a", "n", "y">>,
       <<"c", "o", "u", "n", "t", "r", "y">>,
       <<"r", "e", "g", "i", "o", "n">> >>

\* any(kw in var for kw in keywords)
HasKeyword(var, keywords) ==
    \E k \in 1..Len(keywords) : HasSub(var, keywords[k])

\* _detect_data_type with the panel test made before the count of columns
DetectDataTypePanelFirst(data) ==
    LET names == [i \in 1..Len(data) |-> Lower(data[i].name)]
        has_time_var == \E i \in 1..Len(data) : HasKeyword(names[i], TimeKeywords)
        has_entity_var == \E i \in 1..Len(data) : HasKeyword(names[i], EntityKeywords)
    IN  IF has_entity_var /\ has_time_var THEN "panel"
        ELSE IF Len(data) = 1 THEN "univariate"
        ELSE "time_series"

\* FileParser._detect_data_type
DetectDataType(data) ==
    LET n_vars == Len(data)
        var_names == [i \in 1..Len(data) |-> Lower(data[i].name)]
        has_time_var ==
            \E i \in 1..n_vars : HasKeyword(var_names[i], TimeKeywords)
        has_entity_var ==
            \E i \in 1..n_vars : HasKeyword(var_names[i], EntityKeywords)
    IN  IF n_vars = 1 THEN "univariate"
        ELSE IF has_entity_var /\ has_time_var THEN "panel"
        ELSE IF has_time_var \/ n_vars >= 2 THEN "time_series"
        ELSE "multivariate"

\* the record both parsers return for a non-empty parsed_data
ParsedRecord(data, format) ==
    [ok |-> TRUE, exc |-> "", msg |-> "", data |-> data,
     variables |-> [i \in 1..Len(data) |-> data[i].name],
     format |-> format, data_type |-> DetectDataType(data),
     n_variables |-> Len(data), n_observations |-> Len(data[1].vals)]

\* the values of column i that convert: a row too short for the column and a
\* cell float() rejects are passed over
RECURSIVE ColumnData(_, _)
ColumnData(data_rows, i) ==
    IF data_rows = <<>> THEN <<>>
    ELSE LET row == Head(data_rows)
             rest == ColumnData(Tail(data_rows), i)
         IN  IF i <= Len(row) /\ ToFloat(Strip(row[i])).ok
             THEN <<ToFloat(Strip(row[i])).val>> \o rest
             ELSE rest

\* the loop over enumerate(headers) that fills parsed_data, from column i on
RECURSIVE CsvColumns(_, _, _, _)
CsvColumns(headers, data_rows, i, acc) ==
    IF i > Len(headers) THEN acc
    ELSE LET column_data == ColumnData(data_rows, i)
         IN  CsvColumns(headers, data_rows, i + 1,
                        IF column_data # <<>>
                        THEN DictSet(acc, Strip(headers[i]), column_data)
                        ELSE acc)

\* _parse_csv, up to rows = list(reader): the delimiter is detected on the
\* first line of the stripped content, the reader reads the content itself
CsvRows(text) ==
    LET lines == Split(Strip(text), "\n")
        delimiter == DetectDelimiter(lines[1])
    IN  CsvReader(text, delimiter)

\* FileParser._parse_csv
ParseCsv(text) ==
    LET lines == Split(Strip(text), "\n")
        rs == CsvRows(text)
        header == HasHeader(rs)
        headers == IF header THEN rs[1]
                   ELSE [i \in 1..Len(rs[1]) |-> <<"v", "a", "r">> \o NatText(i)]
        data_rows == IF header THEN Tail(rs) ELSE rs
        parsed_data == CsvColumns(headers, data_rows, 1, <<>>)
    IN  IF lines = <<>> THEN Raise("ValueError", MsgCsvEmpty)
        ELSE IF rs = <<>> THEN Raise("ValueError", MsgCsvNoData)
        ELSE IF parsed_data = <<>> THEN Raise("ValueError", MsgCsvNoNumeric)
        ELSE ParsedRecord(parsed_data, "csv")

MetadataKeys ==
    { <<"m", "e", "t", "a", "d", "a", "t", "a">>, <<"i", "n", "f", "o">>,
      <<"d", "e", "s", "c", "r", "i", "p", "t", "i", "o", "n">> }

\* format 1, the loop over json_data.items(): a metadata key is passed over,
\* and so is a column holding a value float() rejects
RECURSIVE JsonDictColumns(_, _, _)
JsonDictColumns(v, i, acc) ==
    IF i > Len(v.keys) THEN acc
    ELSE LET values == v.items[i].items
             numeric == \A j \in 1..Len(values) : JFloat(values[j]).ok
         IN  JsonDictColumns(v, i + 1,
                IF Lower(v.keys[i]) \in MetadataKeys \/ ~numeric THEN acc
                ELSE DictSet(acc, v.keys[i],
                             [j \in 1..Len(values) |-> JFloat(values[j]).val]))

\* format 2, the loop over one record's items: every key gets a column, and
\* a value float() rejects is passed over
RECURSIVE JsonRecordFields(_, _, _)
JsonRecordFields(record, i, acc) ==
    IF i > Len(record.keys) THEN acc
    ELSE LET key == record.keys[i]
             old == IF \E j \in 1..Len(acc) : acc[j].name = key
                    THEN acc[CHOOSE j \in 1..Len(acc) : acc[j].name = key].vals
                    ELSE <<>>
             f == JFloat(record.items[i])
         IN  JsonRecordFields(record, i + 1,
                DictSet(acc, key, IF f.ok THEN Append(old, f.val) ELSE old))

RECURSIVE JsonRecords(_, _, _)
JsonRecords(records, i, acc) ==
    IF i > Len(records) THEN acc
    ELSE JsonRecords(records, i + 1, JsonRecordFields(records[i], 1, acc))

\* FileParser._parse_json, after json.loads gave json_data
RECURSIVE ParseJsonData(_)
ParseJsonData(json_data) ==
    IF json_data.t = "dict"
       /\ \A i \in 1..Len(json_data.items) : json_data.items[i].t = "list"
    THEN LET parsed_data == JsonDictColumns(json_data, 1, <<>>)
         IN  IF parsed_data # <<>> THEN ParsedRecord(parsed_data, "json")
             ELSE Raise("ValueError", MsgJsonUnsupported)
    ELSE IF json_data.t = "list" /\ json_data.items # <<>>
            /\ json_data.items[1].t = "dict"
    THEN IF \E i \in 1..Len(json_data.items) : json_data.items[i].t # "dict"
         THEN Raise("AttributeError", "object has no attribute items")
         ELSE LET parsed_data == JsonRecords(json_data.items, 1, <<>>)
              IN  IF parsed_data # <<>> THEN ParsedRecord(parsed_data, "json")
                  ELSE Raise("ValueError", MsgJsonUnsupported)
    ELSE IF json_data.t = "dict"
            /\ \E i \in 1..Len(json_data.keys) :
                  json_data.keys[i] = <<"d", "a", "t", "a">>
    THEN ParseJsonData(json_data.items[
            CHOOSE i \in 1..Len(json_data.keys) :
                json_data.keys[i] = <<"d", "a", "t", "a">>])
    ELSE Raise("ValueError", MsgJsonUnsupported)

\* FileParser._parse_json
ParseJson(text, d) ==
    LET loaded == JsonLoads(text, d)
    IN  IF ~loaded.ok THEN Raise("ValueError", MsgJsonSyntax)
        ELSE ParseJsonData(loaded.val)

\* FileParser._detect_format: the format, or "" when the ValueError is raised
DetectFormat(text, d) ==
    IF JsonLoads(Strip(text), d).ok THEN "json"
    ELSE IF HasChar(text, ",") \/ HasChar(text, "\t") THEN "csv"
    ELSE ""

\* the try/except at the head of parse_file_content: the content is replaced
\* by its base64 decoding whenever that decoding succeeds
Decoded(text) ==
    LET raw == B64Decode(text)
        dec == IF raw.ok THEN Utf8Decode(raw.bytes) ELSE [ok |-> FALSE, text |-> <<>>]
    IN  [decoded |-> dec.ok, text |-> IF dec.ok THEN dec.text ELSE text]

\* FileParser.parse_file_content
ParseFileContent(text, d, fmt) ==
    LET dec == Decoded(text)
        decoded_content == dec.text
        dd == IF dec.decoded THEN NoDoc ELSE d
        detected == IF fmt = "auto" THEN DetectFormat(decoded_content, dd)
                    ELSE fmt
    IN  IF fmt = "auto" /\ detected = ""
        THEN Raise("ValueError", MsgCannotDetect)
        ELSE IF detected = "csv" THEN ParseCsv(decoded_content)
        ELSE IF detected = "json" THEN ParseJson(decoded_content, dd)
        ELSE Raise("ValueError", MsgBadFormat)


\* what convert_to_tool_format returns: the keyword arguments kw, a mapping
\* from parameter name to value, or the exception it raises
Converted(kw) == [ok |-> TRUE, exc |-> "", msg |-> "", kw |-> kw]

ConvertRaise(exc, msg) == [ok |-> FALSE, exc |-> exc, msg |-> msg, kw |-> <<>>]

NoKwargs == <<>>

MsgRegressionTooFew == "regression needs at least 2 variables"
MsgPanelNoIds == "panel data needs an entity id and a time variable"
MsgPanelTooFew == "panel data needs at least 2 data variables"
MsgBadToolType == "unsupported tool type"

\* data[var] on the parsed data
DataOf(data, var) == data[CHOOSE i \in 1..Len(data) : data[i].name = var].vals

\* data[var][i] raises IndexError for a variable with fewer than n_obs values
MatrixOK(data, x_vars, n_obs) ==
    \A j \in 1..Len(x_vars) : Len(DataOf(data, x_vars[j])) >= n_obs

MsgIndex == "list index out of range"

\* the x_data matrix: one row per observation of y, one cell per x variable
Matrix(data, x_vars, n_obs) ==
    [i \in 1..n_obs |-> [j \in 1..Len(x_vars) |-> DataOf(data, x_vars[j])[i]]]

\* str(int(x)) if x == int(x) else str(x), for the integral values of the model
IdText(vals) == [i \in 1..Len(vals) |-> IntText(vals[i])]

\* the loop of the panel branch that splits the variables into the entity
\* variable, the time variable and the data variables; "" is None
RECURSIVE PanelRoles(_, _, _)
PanelRoles(variables, i, acc) ==
    IF i > Len(variables) THEN acc
    ELSE LET var == variables[i]
             var_lower == Lower(var)
         IN  PanelRoles(variables, i + 1,
                IF HasKeyword(var_lower, EntityKeywords) /\ ~acc.has_entity
                THEN [acc EXCEPT !.has_entity = TRUE, !.entity_var = var]
                ELSE IF HasKeyword(var_lower, TimeKeywords) /\ ~acc.has_time
                THEN [acc EXCEPT !.has_time = TRUE, !.time_var = var]
                ELSE [acc EXCEPT !.data_vars = Append(@, var)])

\* FileParser.convert_to_tool_format
ConvertToToolFormat(p, tt) ==
    LET data == p.data
        variables == p.variables
    IN  CASE tt = "single_var" ->
              Converted([data |-> DataOf(data, variables[1]),
                         variable_name |-> variables[1]])
          [] tt = "multi_var_dict" ->
              Converted([data |-> data])
          [] tt = "multi_var_matrix" ->
              IF ~MatrixOK(data, variables, Len(DataOf(data, variables[1])))
              THEN ConvertRaise("IndexError", MsgIndex)
              ELSE
              Converted([data |-> Matrix(data, variables,
                                         Len(DataOf(data, variables[1]))),
                         feature_names |-> variables])
          [] tt = "regression" ->
              IF Len(variables) < 2
              THEN ConvertRaise("ValueError", MsgRegressionTooFew)
              ELSE LET y_var == variables[Len(variables)]
                       x_vars == SubSeq(variables, 1, Len(variables) - 1)
                       y_data == DataOf(data, y_var)
                   IN  IF ~MatrixOK(data, x_vars, Len(y_data))
                       THEN ConvertRaise("IndexError", MsgIndex)
                       ELSE
                       Converted([y_data |-> y_data,
                                  x_data |-> Matrix(data, x_vars, Len(y_data)),
                                  feature_names |-> x_vars,
                                  y_variable |-> y_var])
          [] tt = "panel" ->
              LET roles == PanelRoles(variables, 1,
                              [has_entity |-> FALSE, entity_var |-> <<>>,
                               has_time |-> FALSE, time_var |-> <<>>,
                               data_vars |-> <<>>])
                  data_vars == roles.data_vars
              IN  IF ~roles.has_entity \/ roles.entity_var = <<>>
                     \/ ~roles.has_time \/ roles.time_var = <<>>
                  THEN ConvertRaise("ValueError", MsgPanelNoIds)
                  ELSE IF Len(data_vars) < 2
                  THEN ConvertRaise("ValueError", MsgPanelTooFew)
                  ELSE LET y_var == data_vars[Len(data_vars)]
                           x_vars == SubSeq(data_vars, 1, Len(data_vars) - 1)
                           y_data == DataOf(data, y_var)
                       IN  IF ~MatrixOK(data, x_vars, Len(y_data))
                           THEN ConvertRaise("IndexError", MsgIndex)
                           ELSE
                           Converted(
                             [y_data |-> y_data,
                              x_data |-> Matrix(data, x_vars, Len(y_data)),
                              entity_ids |-> IdText(DataOf(data, roles.entity_var)),
                              time_periods |-> IdText(DataOf(data, roles.time_var)),
                              feature_names |-> x_vars,
                              y_variable |-> y_var])
          [] OTHER -> ConvertRaise("ValueError", MsgBadToolType)

-----------------------------------------------------------------------------
(* Inputs                                                                  *)

SeqsUpTo(S, n) == UNION {[1..k -> S] : k \in 0..n}

Distinct(q) == \A i, j \in 1..Len(q) : i # j => q[i] # q[j]

\* the subsequences of q
RECURSIVE SubSeqs(_)
SubSeqs(q) ==
    IF q = <<>> THEN {<<>>}
    ELSE LET rest == SubSeqs(Tail(q))
         IN  rest \cup {<<Head(q)>> \o r : r \in rest}

\* the characters of a raw content
TextAlphabet == {"1", "a", ",", "\t", ";", "|", "\n"}

RawTexts == SeqsUpTo(TextAlphabet, MaxLen)

FileFormats == {"auto", "csv", "json", "xml"}

JScalars == {JNum(1), JStr(<<"x">>), JNull}

JLists == {JList(q) : q \in SeqsUpTo({JNum(1), JStr(<<"x">>)}, MaxItems)}

\* the documents of the mapping form: some values may be no list
MapKeys == << <<"a">>, <<"i", "d">>, <<"i", "n", "f", "o">>, <<"d", "a", "t", "a">> >>

MapValues == JLists \cup JScalars \cup {JDict(<<<<"a">>>>, <<JList(<<JNum(1)>>)>>)}

IsMapDoc(d) ==
    \E ks \in {q \in SubSeqs(MapKeys) : Len(q) <= MaxKeys} :
       \E vs \in [1..Len(ks) -> MapValues] : d = JDict(ks, vs)

\* the documents of the list-of-records form: some elements may be no record
RecordKeys == {<<"a">>, <<"i", "d">>}

Records ==
    UNION {{JDict(ks, vs) : vs \in [1..Len(ks) -> JScalars]} :
             ks \in {q \in SeqsUpTo(RecordKeys, MaxKeys) : Distinct(q)}}

IsRecordDoc(d) ==
    \E n \in 0..MaxItems : \E q \in [1..n -> Records \cup JScalars] : d = JList(q)

\* the state of the parts of the model a specification does not use
NoParsed == Raise("", "")

NoConverted == ConvertRaise("", "")

IdleCsv == rows = <<>> /\ has_header = FALSE

IdleConvert == dataset = <<>> /\ tool_type = "" /\ converted = NoConverted

NoOutcome == [kind |-> "none", isError |-> FALSE, prefix |-> "", exc |-> "", msg |-> ""]

NoFlags ==
    [with_file_support |-> FALSE, with_error_handling |-> FALSE, with_logging |-> FALSE]

NoBody == [raises |-> FALSE, exc |-> "", msg |-> ""]

IdleCall == args = <<>> /\ result = <<>>

IdleTool ==
    /\ flags = NoFlags
    /\ wrapped = <<>>
    /\ stack = <<>>
    /\ tool_name = ""
    /\ kwargs = <<>>
    /\ passed = <<>>
    /\ called = FALSE
    /\ body = NoBody
    /\ log = <<>>
    /\ outcome = NoOutcome

-----------------------------------------------------------------------------
(* parse_file_content called on any content and declared format           *)

InitParse ==
    /\ pc = "parse"
    /\ \/ content \in RawTexts /\ doc = NoDoc
       \/ (IsMapDoc(doc) \/ IsRecordDoc(doc)) /\ content = Dumps(doc)
    /\ file_format \in FileFormats
    /\ parsed = NoParsed
    /\ IdleCsv
    /\ IdleConvert
    /\ IdleTool
    /\ IdleCall

CallParseFileContent ==
    /\ pc = "parse"
    /\ parsed' = ParseFileContent(content, doc, file_format)
    /\ pc' = "convert"
    /\ UNCHANGED <<content, doc, file_format, rows, has_header, dataset,
                   tool_type, converted>>
    /\ UNCHANGED <<toolvars, callvars>>

NextParse == CallParseFileContent

SpecParse == InitParse /\ [][NextParse]_vars

-----------------------------------------------------------------------------
(* a dataset written as delimited text, parsed and reshaped for a tool     *)

ToolTypes == {"single_var", "multi_var_dict", "regression", "panel", "time_series"}

\* the column names, in the order a dataset holds them
DataNames == << <<"i", "d">>, <<"d", "a", "y">>, <<"x">>, <<"y">> >>

DataValues == {1, 2}

\* the datasets: named columns of equal length, at least one observation
Datasets ==
    UNION {UNION {{[i \in 1..Len(ns) |-> [name |-> ns[i], vals |-> vs[i]]] :
                     vs \in [1..Len(ns) -> [1..n -> DataValues]]} :
                   n \in 1..MaxObs} :
           ns \in {q \in SubSeqs(DataNames) : q # <<>> /\ Len(q) <= MaxCols}}

\* the shape of dataset each tool type is for: one column, two or more, or an
\* entity column and a time column followed by two or more data columns
Fits(ds, tt) ==
    CASE tt = "single_var" -> Len(ds) = 1
      [] tt = "panel" -> /\ Len(ds) >= 4
                         /\ ds[1].name = <<"i", "d">>
                         /\ ds[2].name = <<"d", "a", "y">>
      [] OTHER -> Len(ds) >= 2

\* the dataset as delimited text: a header line and one line per observation
ToCsv(ds) ==
    LET n == Len(ds[1].vals)
        line(i) == JoinTexts([j \in 1..Len(ds) |-> IntText(ds[j].vals[i])], <<",">>)
    IN  JoinTexts(<<JoinTexts([j \in 1..Len(ds) |-> ds[j].name], <<",">>)>>
                  \o [i \in 1..n |-> line(i)], <<"\n">>)

InitRoundTrip ==
    /\ pc = "serialize"
    /\ tool_type \in ToolTypes
    /\ dataset \in {ds \in Datasets : Fits(ds, tool_type)}
    /\ content = <<>>
    /\ doc = NoDoc
    /\ file_format \in {"auto", "csv"}
    /\ parsed = NoParsed
    /\ converted = NoConverted
    /\ IdleCsv
    /\ IdleTool
    /\ IdleCall

Serialize ==
    /\ pc = "serialize"
    /\ content' = ToCsv(dataset)
    /\ pc' = "parse"
    /\ UNCHANGED <<doc, file_format, parsed, rows, has_header, dataset,
                   tool_type, converted>>
    /\ UNCHANGED <<toolvars, callvars>>

\* convert_to_tool_format on the record the parser returned
CallConvert ==
    /\ pc = "convert"
    /\ parsed.ok
    /\ converted' = ConvertToToolFormat(parsed, tool_type)
    /\ pc' = "done"
    /\ UNCHANGED <<content, doc, file_format, parsed, rows, has_header,
                   dataset, tool_type>>
    /\ UNCHANGED <<toolvars, callvars>>

\* the parser raised: there is no record to reshape
ParseFailed ==
    /\ pc = "convert"
    /\ ~parsed.ok
    /\ pc' = "done"
    /\ UNCHANGED <<content, doc, file_format, parsed, rows, has_header,
                   dataset, tool_type, converted>>
    /\ UNCHANGED <<toolvars, callvars>>

NextRoundTrip == Serialize \/ CallParseFileContent \/ CallConvert \/ ParseFailed

SpecRoundTrip == InitRoundTrip /\ [][NextRoundTrip]_vars


-----------------------------------------------------------------------------
(* _parse_json called on the text of a JSON document                       *)

JsonScalars == {JNum(1), JNum(2), JStr(<<"x">>), JNull}

JsonColumnKeys == << <<"a">>, <<"b">> >>

JsonLists == {JList(q) : q \in SeqsUpTo(JsonScalars, MaxItems)}

\* a metadata entry a mapping may end with
JsonMetadata ==
    {JDict(<<>>, <<>>),
     JDict(<< <<"i", "n", "f", "o">> >>, <<JList(<<JNum(1)>>)>>),
     JDict(<< <<"I", "n", "f", "o">> >>, <<JList(<<JStr(<<"x">>)>>)>>)}

JsonRecordKeys == << <<"a">>, <<"b">> >>

\* the records of the list-of-records form
JsonRecordSet ==
    UNION {{JDict(ks, vs) : vs \in [1..Len(ks) -> JsonScalars]} :
             ks \in {q \in SubSeqs(JsonRecordKeys) : Len(q) <= MaxKeys}}

\* the document is of the mapping form, every value a list of scalars,
\* followed or not by a metadata entry
IsJsonMapping(d) ==
    \E ks \in SubSeqs(JsonColumnKeys), meta \in JsonMetadata :
       \E vs \in [1..Len(ks) -> JsonLists] :
          d = JDict(ks \o meta.keys, vs \o meta.items)

\* the document is of the list-of-records form; an element may be null
\* instead of a record
IsJsonRecordList(d) ==
    \E n \in 0..MaxItems : \E q \in [1..n -> JsonRecordSet \cup {JNull}] :
       d = JList(q)

InitJson ==
    /\ pc = "parse_json"
    /\ IsJsonMapping(doc) \/ IsJsonRecordList(doc)
    /\ content = Dumps(doc)
    /\ file_format = "json"
    /\ parsed = NoParsed
    /\ IdleCsv
    /\ IdleConvert
    /\ IdleTool
    /\ IdleCall

CallParseJson ==
    /\ pc = "parse_json"
    /\ parsed' = ParseJson(content, doc)
    /\ pc' = "convert"
    /\ UNCHANGED <<content, doc, file_format, rows, has_header, dataset,
                   tool_type, converted>>
    /\ UNCHANGED <<toolvars, callvars>>

NextJson == CallParseJson

SpecJson == InitJson /\ [][NextJson]_vars

-----------------------------------------------------------------------------
(* _parse_csv called on any delimited text                                 *)

CsvAlphabet == {"1", "a", " ", ",", "\n"}

InitCsv ==
    /\ pc = "parse_csv"
    /\ content \in SeqsUpTo(CsvAlphabet, MaxLen)
    /\ doc = NoDoc
    /\ file_format = "csv"
    /\ parsed = NoParsed
    /\ IdleCsv
    /\ IdleConvert
    /\ IdleTool
    /\ IdleCall

\* rows and has_header are the locals of _parse_csv; has_header is not
\* computed when the reader gave no row
CallParseCsv ==
    /\ pc = "parse_csv"
    /\ parsed' = ParseCsv(content)
    /\ rows' = CsvRows(content)
    /\ has_header' = IF rows' = <<>> THEN FALSE ELSE HasHeader(rows')
    /\ pc' = "convert"
    /\ UNCHANGED <<content, doc, file_format, dataset, tool_type, converted>>
    /\ UNCHANGED <<toolvars, callvars>>

NextCsv == CallParseCsv

SpecCsv == InitCsv /\ [][NextCsv]_vars

-----------------------------------------------------------------------------
(* A tool built by econometric_tool, called once                           *)

Returned(isError, prefix, msg) ==
    [kind |-> "returned", isError |-> isError, prefix |-> prefix, exc |-> "", msg |-> msg]

Raised(exc, msg) ==
    [kind |-> "raised", isError |-> FALSE, prefix |-> "", exc |-> exc, msg |-> msg]

Info(event) == [level |-> "info", event |-> event]

Error(event) == [level |-> "error", event |-> event]

\* the two prefixes of the error texts, and the text of a result of the tool
PrefixError == "error: "
PrefixFileError == "file parse error: "
TextResult == "result"

\* str(e) of the AttributeError raised by FileParser.parse_file_path, a
\* method the class does not have
MsgNoParseFilePath == "type object FileParser has no attribute parse_file_path"

\* the wrappers nested the other way round: file input applied first
FileInputInnermost(f) ==
    LET w0 == <<"func">>
        w1 == IF f.with_file_support THEN <<"with_file_input">> \o w0 ELSE w0
        w2 == IF f.with_error_handling THEN <<"with_error_handling">> \o w1 ELSE w1
    IN  IF f.with_logging THEN <<"with_logging">> \o w2 ELSE w2

\* econometric_tool: each wrapper applied goes around the ones applied before
EconometricTool(f) ==
    LET w0 == <<"func">>
        w1 == IF f.with_error_handling THEN <<"with_error_handling">> \o w0 ELSE w0
        w2 == IF f.with_file_support THEN <<"with_file_input">> \o w1 ELSE w1
    IN  IF f.with_logging THEN <<"with_logging">> \o w2 ELSE w2

\* an exception left to propagate
Propagated(o) == o

\* with_error_handling, after the call of func: an exception is turned into
\* an error result that carries str(e)
WithErrorHandling(o) ==
    IF o.kind = "raised" THEN Returned(TRUE, PrefixError, o.msg) ELSE o

\* the caller's arguments kept where both give a value
KeepCallers(kw, conv) == kw @@ conv

\* kwargs.update(converted)
Update(kw, conv) == conv @@ kw

\* with_file_input: the file the call names is parsed; the file path is
\* looked at first and the content only when there is no path
FileParsed(kw) ==
    IF kw.file_path # <<>> THEN Raise("AttributeError", MsgNoParseFilePath)
    ELSE IF kw.file_content # <<>>
    THEN ParseFileContent(kw.file_content, NoDoc, kw.file_format)
    ELSE NoParsed

\* the call names a file
HasFile(kw) == kw.file_path # <<>> \/ kw.file_content # <<>>

FlagSets ==
    [with_file_support : BOOLEAN, with_error_handling : BOOLEAN,
     with_logging : BOOLEAN]

CallToolTypes == {"single_var", "regression", "time_series"}

\* file contents: none, a table of two columns, a table of one column
FileContents ==
    {<<>>, <<"x", ",", "y", "\n", "1", ",", "2">>, <<"x", "\n", "1">>}

\* a table with an entity column and a time column
PanelContent ==
    <<"i", "d", ",", "y", "e", "a", "r", ",", "x", ",", "y", "\n",
      "1", ",", "1", ",", "1", ",", "2">>

FilePaths == {<<>>, <<"d", ".", "c", "s", "v">>}

NoData == [k \in {} |-> <<>>]

\* data arguments a caller passes next to a file
CallerData(tt) ==
    CASE tt = "regression" ->
           {NoData,
            [y_data |-> <<9>>, constant |-> <<0>>],
            [y_data |-> <<9>>, x_data |-> << <<9>> >>,
             feature_names |-> << <<"c">> >>, y_variable |-> <<"c">>]}
      [] tt = "single_var" ->
           {NoData,
            [data |-> <<9>>, max_lags |-> <<3>>],
            [data |-> <<9>>, variable_name |-> <<"c">>]}
      [] OTHER ->
           {NoData, [data |-> <<9>>]}

Bodies ==
    {NoBody,
     [raises |-> TRUE, exc |-> "ValueError", msg |-> "singular matrix"],
     [raises |-> TRUE, exc |-> "RuntimeError", msg |-> ""]}

InitTool ==
    /\ pc = "decorate"
    /\ flags \in FlagSets
    /\ tool_type \in CallToolTypes
    /\ \E path \in FilePaths, text \in FileContents, fmt \in {"auto", "csv"},
          data \in CallerData(tool_type) :
          kwargs = [file_path |-> path, file_content |-> text,
                    file_format |-> fmt] @@ data
    /\ passed = kwargs
    /\ body \in Bodies
    /\ wrapped = <<>>
    /\ stack = <<>>
    /\ tool_name = ""
    /\ called = FALSE
    /\ log = <<>>
    /\ outcome = NoOutcome
    /\ content = <<>>
    /\ doc = NoDoc
    /\ file_format = ""
    /\ parsed = NoParsed
    /\ converted = NoConverted
    /\ dataset = <<>>
    /\ IdleCsv
    /\ IdleCall

parservars == <<content, doc, file_format, rows, has_header, dataset, tool_type>>

\* the decorator is applied to the tool function
Decorate ==
    /\ pc = "decorate"
    /\ wrapped' = EconometricTool(flags)
    /\ pc' = "call"
    /\ UNCHANGED <<callvars, parservars, parsed, converted, flags, stack, tool_name,
                   kwargs, passed, called, body, log, outcome>>

\* the wrapper the call reaches next
Callee == wrapped[Len(stack) + 1]

\* with_logging, up to the call of func
LoggingCall ==
    /\ pc = "call"
    /\ Callee = "with_logging"
    /\ log' = Append(log, Info("started"))
    /\ stack' = Append(stack, "with_logging")
    /\ UNCHANGED <<callvars, pc, parservars, parsed, converted, flags, wrapped,
                   tool_name, kwargs, passed, called, body, outcome>>

\* a wrapper that takes every try block as passed
ResolvedAnyway(p, c) == TRUE

\* the try block of with_file_input ended without an exception
Resolved(p, c) == p.ok /\ c.ok

\* with_file_input, from its call to its first await: without a file the
\* wrapper calls func at once, with one it announces the input
FileInputCall ==
    /\ pc = "call"
    /\ Callee = "with_file_input"
    /\ IF ~HasFile(passed)
       THEN /\ stack' = Append(stack, "with_file_input")
            /\ UNCHANGED <<pc, log>>
       ELSE /\ log' = Append(log, Info(IF passed.file_path # <<>>
                                       THEN "file path detected"
                                       ELSE "file content detected"))
            /\ pc' = "file_parse"
            /\ UNCHANGED stack
    /\ UNCHANGED <<callvars, parservars, parsed, converted, flags, wrapped,
                   tool_name, kwargs, passed, called, body, outcome>>

\* with_file_input, from the announcement to the next await: the parse,
\* then the notice of its success or, in the except branch, of its failure
FileInputParse ==
    /\ pc = "file_parse"
    /\ parsed' = FileParsed(passed)
    /\ IF parsed'.ok
       THEN /\ log' = Append(log, Info("file parsed"))
            /\ pc' = "file_convert"
       ELSE /\ log' = Append(log, Error("file parse failed"))
            /\ pc' = "file_error"
    /\ UNCHANGED <<callvars, parservars, converted, flags, wrapped, stack,
                   tool_name, kwargs, passed, called, body, outcome>>

\* with_file_input, from the notice of the parse to the next await: the
\* conversion and kwargs.update, then the notice and the call of func or,
\* in the except branch, the notice of the failure
FileInputConvert ==
    /\ pc = "file_convert"
    /\ converted' = ConvertToToolFormat(parsed, tool_type)
    /\ IF Resolved(parsed, converted')
       THEN /\ passed' = Update(passed, converted'.kw)
            /\ log' = Append(log, Info("data converted"))
            /\ stack' = Append(stack, "with_file_input")
            /\ pc' = "call"
       ELSE /\ log' = Append(log, Error("file parse failed"))
            /\ pc' = "file_error"
            /\ UNCHANGED <<stack, passed>>
    /\ UNCHANGED <<callvars, parservars, parsed, flags, wrapped, tool_name,
                   kwargs, called, body, outcome>>

\* with_file_input, after the notice of the failure: the error result is
\* returned
FileInputError ==
    /\ pc = "file_error"
    /\ outcome' = Returned(TRUE, PrefixFileError,
                           IF parsed.ok THEN converted.msg ELSE parsed.msg)
    /\ pc' = "return"
    /\ UNCHANGED <<callvars, parservars, parsed, converted, flags, wrapped,
                   stack, tool_name, kwargs, passed, called, body, log>>

\* with_error_handling, up to the call of func
ErrorHandlingCall ==
    /\ pc = "call"
    /\ Callee = "with_error_handling"
    /\ stack' = Append(stack, "with_error_handling")
    /\ UNCHANGED <<callvars, pc, parservars, parsed, converted, flags, wrapped,
                   tool_name, kwargs, passed, called, body, log, outcome>>

\* the tools registered in aigroup_econ_mcp/server.py
BasicTools ==
    {"descriptive_statistics", "ols_regression", "hypothesis_testing",
     "time_series_analysis", "correlation_analysis"}

PanelTools ==
    {"panel_fixed_effects", "panel_random_effects", "panel_hausman_test",
     "panel_unit_root_test"}

TimeSeriesTools ==
    {"var_model_analysis", "vecm_model_analysis", "garch_model_analysis",
     "state_space_model_analysis", "variance_decomposition_analysis"}

LearningTools ==
    {"random_forest_regression_analysis",
     "gradient_boosting_regression_analysis", "lasso_regression_analysis",
     "ridge_regression_analysis", "cross_validation_analysis",
     "feature_importance_analysis_tool"}

RegisteredTools == BasicTools \cup PanelTools \cup TimeSeriesTools \cup LearningTools

\* the tool_type each tool is decorated with
ToolTypeOf(tool) ==
    IF tool \in {"descriptive_statistics", "correlation_analysis"}
    THEN "multi_var_dict"
    ELSE IF tool \in {"hypothesis_testing", "time_series_analysis",
                      "garch_model_analysis", "state_space_model_analysis"}
    THEN "single_var"
    ELSE IF tool \in PanelTools THEN "panel"
    ELSE IF tool \in {"var_model_analysis", "vecm_model_analysis",
                      "variance_decomposition_analysis"}
    THEN "time_series"
    ELSE "regression"

FileParameters == {"file_path", "file_content", "file_format"}

RegressionParameters == {"y_data", "x_data", "feature_names"}

PanelParameters == RegressionParameters \cup {"entity_ids", "time_periods"}

\* the keyword parameters of the tool functions; none has **kwargs
Parameters(tool) ==
    FileParameters \cup
    CASE tool = "descriptive_statistics" -> {"data"}
      [] tool = "ols_regression" -> RegressionParameters
      [] tool = "hypothesis_testing" -> {"data", "data2", "test_type"}
      [] tool = "time_series_analysis" -> {"data"}
      [] tool = "correlation_analysis" -> {"data", "method"}
      [] tool \in {"panel_fixed_effects", "panel_random_effects"} ->
            PanelParameters \cup {"entity_effects", "time_effects"}
      [] tool = "panel_hausman_test" -> PanelParameters
      [] tool = "panel_unit_root_test" ->
            PanelParameters \cup {"data", "test_type"}
      [] tool = "var_model_analysis" -> {"data", "max_lags", "ic"}
      [] tool = "vecm_model_analysis" ->
            {"data", "coint_rank", "deterministic", "max_lags"}
      [] tool = "garch_model_analysis" -> {"data", "order", "dist"}
      [] tool = "state_space_model_analysis" ->
            {"data", "state_dim", "observation_dim", "trend", "seasonal",
             "period"}
      [] tool = "variance_decomposition_analysis" ->
            {"data", "periods", "max_lags"}
      [] tool = "random_forest_regression_analysis" ->
            RegressionParameters \cup {"n_estimators", "max_depth"}
      [] tool = "gradient_boosting_regression_analysis" ->
            RegressionParameters \cup
            {"n_estimators", "learning_rate", "max_depth"}
      [] tool \in {"lasso_regression_analysis", "ridge_regression_analysis"} ->
            RegressionParameters \cup {"alpha"}
      [] tool = "cross_validation_analysis" ->
            RegressionParameters \cup {"model_type", "cv_folds", "scoring"}
      [] tool = "feature_importance_analysis_tool" ->
            RegressionParameters \cup {"method", "top_k"}

\* str(e) of the TypeError of a call with a keyword no parameter has
MsgUnexpectedKeyword == "got an unexpected keyword argument"

\* the keywords of the call that func has no parameter for. A tool function
\* that is not one of the registered ones takes **kwargs, as the docstring
\* of the decorators shows it
Unexpected(tool, kw) ==
    IF tool \in RegisteredTools THEN DOMAIN kw \ Parameters(tool) ELSE {}

\* func(*args, **kwargs): Python binds the keywords to the parameters, then
\* the tool function runs
FuncCall ==
    /\ pc = "call"
    /\ Callee = "func"
    /\ IF Unexpected(tool_name, passed) # {}
       THEN /\ outcome' = Raised("TypeError", MsgUnexpectedKeyword)
            /\ UNCHANGED called
       ELSE /\ called' = TRUE
            /\ outcome' = IF body.raises THEN Raised(body.exc, body.msg)
                          ELSE Returned(FALSE, "", TextResult)
    /\ pc' = "return"
    /\ UNCHANGED <<callvars, parservars, parsed, converted, flags, wrapped, stack,
                   tool_name, kwargs, passed, body, log>>

Caller == stack[Len(stack)]

Pop == SubSeq(stack, 1, Len(stack) - 1)

\* with_error_handling, from the return of func to its return or, in the
\* except branch, to its await: the notice of the failure is sent while the
\* exception is still what the call has produced
ErrorHandlingReturn ==
    /\ pc = "return"
    /\ stack # <<>>
    /\ Caller = "with_error_handling"
    /\ IF outcome.kind = "raised"
       THEN /\ log' = Append(log, Error("tool failed"))
            /\ pc' = "handle_error"
            /\ UNCHANGED <<stack, outcome>>
       ELSE /\ outcome' = WithErrorHandling(outcome)
            /\ stack' = Pop
            /\ UNCHANGED <<pc, log>>
    /\ UNCHANGED <<callvars, parservars, parsed, converted, flags, wrapped,
                   tool_name, kwargs, passed, called, body>>

\* with_error_handling, after the notice of the failure: the error result
\* is returned
ErrorHandlingError ==
    /\ pc = "handle_error"
    /\ outcome' = WithErrorHandling(outcome)
    /\ stack' = Pop
    /\ pc' = "return"
    /\ UNCHANGED <<callvars, parservars, parsed, converted, flags, wrapped,
                   tool_name, kwargs, passed, called, body, log>>

\* with_file_input, from the return of func: return await func(...)
FileInputReturn ==
    /\ pc = "return"
    /\ stack # <<>>
    /\ Caller = "with_file_input"
    /\ stack' = Pop
    /\ UNCHANGED <<callvars, pc, parservars, parsed, converted, flags, wrapped,
                   tool_name, kwargs, passed, called, body, log, outcome>>

\* with_logging, from the return of func to its next await: the second
\* notice is sent by the statement after the await of func, which an
\* exception skips
LoggingReturn ==
    /\ pc = "return"
    /\ stack # <<>>
    /\ Caller = "with_logging"
    /\ IF outcome.kind = "raised"
       THEN /\ stack' = Pop
            /\ UNCHANGED <<pc, log>>
       ELSE /\ log' = Append(log, Info("completed"))
            /\ pc' = "logged"
            /\ UNCHANGED stack
    /\ UNCHANGED <<callvars, parservars, parsed, converted, flags, wrapped,
                   tool_name, kwargs, passed, called, body, outcome>>

\* with_logging, after the second notice: return result
LoggingResult ==
    /\ pc = "logged"
    /\ stack' = Pop
    /\ pc' = "return"
    /\ UNCHANGED <<callvars, parservars, parsed, converted, flags, wrapped,
                   tool_name, kwargs, passed, called, body, log, outcome>>

\* the outermost wrapper gives the outcome to its caller
Deliver ==
    /\ pc = "return"
    /\ stack = <<>>
    /\ pc' = "done"
    /\ UNCHANGED <<callvars, parservars, parsed, converted, toolvars>>

NextTool ==
    \/ Decorate
    \/ LoggingCall
    \/ FileInputCall
    \/ FileInputParse
    \/ FileInputConvert
    \/ FileInputError
    \/ ErrorHandlingCall
    \/ FuncCall
    \/ ErrorHandlingReturn
    \/ ErrorHandlingError
    \/ FileInputReturn
    \/ LoggingReturn
    \/ LoggingResult
    \/ Deliver

SpecTool == InitTool /\ [][NextTool]_vars

-----------------------------------------------------------------------------
(* src/server.py: handle_call_tool called once                             *)

ToolNames ==
    {"basic_parametric_estimation_ols", "basic_parametric_estimation_mle",
     "basic_parametric_estimation_gmm"}

PrefixToolError == "tool execution error: "
MsgUnknownTool == "unknown tool"
MsgNeedXY == "y_data and x_data must be given"
MsgNeedData == "data must be given"

\* arguments.get(key) is None
Missing(arguments, key) == key \notin DOMAIN arguments

\* _handle_ols_regression, _handle_mle_estimation, _handle_gmm_estimation:
\* the text returned, or the exception of the estimator
Handle(tool, arguments, estimator) ==
    IF tool = "basic_parametric_estimation_mle"
    THEN IF Missing(arguments, "data")
         THEN Returned(FALSE, PrefixError, MsgNeedData)
         ELSE IF estimator.raises THEN Raised(estimator.exc, estimator.msg)
         ELSE Returned(FALSE, "", TextResult)
    ELSE IF Missing(arguments, "y_data") \/ Missing(arguments, "x_data")
         THEN Returned(FALSE, PrefixError, MsgNeedXY)
         ELSE IF estimator.raises THEN Raised(estimator.exc, estimator.msg)
         ELSE Returned(FALSE, "", TextResult)

\* handle_call_tool: whatever happens, a list of one text content is
\* returned, which the protocol delivers as a result without the error flag
HandleCallToolResult(tool, arguments, estimator) ==
    IF tool \notin ToolNames
    THEN Returned(FALSE, PrefixToolError, MsgUnknownTool)
    ELSE LET r == Handle(tool, arguments, estimator)
         IN  IF r.kind = "raised" THEN Returned(FALSE, PrefixToolError, r.msg)
             ELSE r

ServerArguments ==
    {[k \in ks |-> IF k = "x_data" THEN << <<1>>, <<2>> >> ELSE <<1, 2>>] :
        ks \in SUBSET {"y_data", "x_data", "data"}}

InitServer ==
    /\ pc = "handle_call_tool"
    /\ tool_name \in ToolNames \cup {"ols"}
    /\ kwargs \in ServerArguments
    /\ body \in Bodies
    /\ flags = NoFlags
    /\ wrapped = <<>>
    /\ stack = <<>>
    /\ passed = <<>>
    /\ called = FALSE
    /\ log = <<>>
    /\ outcome = NoOutcome
    /\ content = <<>>
    /\ doc = NoDoc
    /\ file_format = ""
    /\ parsed = NoParsed
    /\ IdleCsv
    /\ IdleConvert
    /\ IdleCall

HandleCallTool ==
    /\ pc = "handle_call_tool"
    /\ outcome' = HandleCallToolResult(tool_name, kwargs, body)
    /\ called' = (tool_name \in ToolNames /\ Handle(tool_name, kwargs, NoBody).msg = TextResult)
    /\ pc' = "done"
    /\ UNCHANGED <<callvars, parservars, parsed, converted, flags, wrapped, stack,
                   tool_name, kwargs, passed, body, log>>

NextServer == HandleCallTool

SpecServer == InitServer /\ [][NextServer]_vars

-----------------------------------------------------------------------------
(* _detect_data_type called on a dataset, and again after a column is      *)
(* taken out of it                                                         *)

othervars == <<parservars, parsed, converted, toolvars>>

IdleOthers ==
    /\ content = <<>>
    /\ doc = NoDoc
    /\ file_format = ""
    /\ parsed = NoParsed
    /\ IdleCsv
    /\ IdleConvert
    /\ IdleTool

\* the column names of the datasets
ColumnNames ==
    {<<"i", "d">>, <<"y", "e", "a", "r">>, <<"x">>, <<"G", "D", "P">>,
     <<"F", "i", "r", "m">>, <<"h", "o", "l", "i", "d", "a", "y">>}

\* q without its element i
Without(q, i) == SubSeq(q, 1, i - 1) \o SubSeq(q, i + 1, Len(q))

InitClassify ==
    /\ pc = "detect"
    /\ \E n \in 1..MaxCols : \E names \in [1..n -> ColumnNames] :
          /\ Distinct(names)
          /\ args = [data |-> [i \in 1..n |-> [name |-> names[i], vals |-> <<1>>]]]
    /\ result = <<>>
    /\ IdleOthers

CallDetectDataType ==
    /\ pc = "detect"
    /\ result' = [data_type |-> DetectDataType(args.data), removed |-> 0,
                  reduced_type |-> ""]
    /\ pc' = "remove"
    /\ UNCHANGED <<args, othervars>>

\* one column is deleted and the rest is classified
RemoveColumn ==
    /\ pc = "remove"
    /\ \E i \in 1..Len(args.data) :
          result' = [result EXCEPT
                        !.removed = i,
                        !.reduced_type = DetectDataType(Without(args.data, i))]
    /\ pc' = "done"
    /\ UNCHANGED <<args, othervars>>

NextClassify == CallDetectDataType \/ RemoveColumn

SpecClassify == InitClassify /\ [][NextClassify]_vars

-----------------------------------------------------------------------------
(* convert_to_tool_format called for a panel tool on a parsed dataset      *)

\* what _parse_csv leaves of a file with cells that are not numbers: named
\* columns of one value or more, not all of one length; the values of
\* column j are all j
InitConvert ==
    /\ pc = "convert"
    /\ tool_type = "panel"
    /\ \E n \in 1..MaxCols : \E names \in [1..n -> ColumnNames] :
       \E lens \in [1..n -> 1..MaxObs] :
          /\ Distinct(names)
          /\ parsed = ParsedRecord(
                [j \in 1..n |-> [name |-> names[j],
                                 vals |-> [i \in 1..lens[j] |-> j]]], "csv")
    /\ content = <<>>
    /\ doc = NoDoc
    /\ file_format = "csv"
    /\ dataset = <<>>
    /\ converted = NoConverted
    /\ IdleCsv
    /\ IdleTool
    /\ IdleCall

NextConvert == CallConvert

SpecConvert == InitConvert /\ [][NextConvert]_vars

-----------------------------------------------------------------------------
(* validate_input: a function called through the validation wrapper        *)

MsgValidationFailed == "data validation failed"

\* a list of one number or more
NumericList(v) ==
    /\ v.t = "list"
    /\ v.items # <<>>
    /\ \A i \in 1..Len(v.items) : v.items[i].t = "num"

\* validate_econometric_data accepts a flat numeric list or a mapping of
\* names to numeric lists of one length
EconometricDataValid(data) ==
    IF data.t = "list" THEN NumericList(data)
    ELSE IF data.t = "dict"
    THEN /\ data.keys # <<>>
         /\ \A i \in 1..Len(data.items) : NumericList(data.items[i])
         /\ \A i, j \in 1..Len(data.items) :
               Len(data.items[i].items) = Len(data.items[j].items)
    ELSE FALSE

Validated(data, warned) ==
    [raised |-> FALSE, exc |-> "", msg |-> "", data |-> data, warned |-> warned]

ValidationRaise(exc, msg) ==
    [raised |-> TRUE, exc |-> exc, msg |-> msg, data |-> <<>>, warned |-> <<>>]

\* _validate_input_data with the strict branch taken whatever the setting
ValidateInputDataStrictOnly(tname, strict, data, data_type) ==
    IF data_type = "econometric" /\ ~EconometricDataValid(data)
    THEN ValidationRaise("DataValidationError", MsgValidationFailed)
    ELSE Validated(data, <<>>)

\* EconometricTool._validate_input_data for the data types econometric and
\* generic: a ValidationError of the validator is raised again as a
\* DataValidationError in strict mode, and becomes a warning otherwise
ValidateInputData(tname, strict, data, data_type) ==
    IF data_type = "econometric" /\ ~EconometricDataValid(data)
    THEN IF strict
         THEN ValidationRaise("DataValidationError", MsgValidationFailed)
         ELSE Validated(data, <<[tool |-> tname, msg |-> MsgValidationFailed]>>)
    ELSE Validated(data, <<>>)

ValidatedKeys == {"data", "y_data", "x_data"}

\* the loop of the wrapper over the keyword arguments, from argument i on
RECURSIVE ValidateKwargs(_, _, _, _, _, _)
ValidateKwargs(tname, strict, data_type, kw, i, acc) ==
    IF i > Len(kw) \/ acc.raised THEN acc
    ELSE IF kw[i].key \in ValidatedKeys
    THEN LET r == ValidateInputData(tname, strict, kw[i].value, data_type)
         IN  ValidateKwargs(tname, strict, data_type, kw, i + 1,
                IF r.raised THEN [acc EXCEPT !.raised = TRUE, !.exc = r.exc,
                                             !.msg = r.msg]
                ELSE [acc EXCEPT
                         !.func_kwargs = Append(@, [key |-> kw[i].key,
                                                    value |-> r.data]),
                         !.warnings = @ \o r.warned])
    ELSE ValidateKwargs(tname, strict, data_type, kw, i + 1,
                [acc EXCEPT !.func_kwargs = Append(@, kw[i])])

\* the wrapper of validate_input: the first positional argument and the
\* keyword arguments data, y_data and x_data are validated, then func is called
ValidateInput(version, tname, strict, data_type, positional, keywords) ==
    LET first == IF positional = <<>> THEN Validated(<<>>, <<>>)
                 ELSE ValidateInputData(tname, strict, positional[1], data_type)
        start == [raised |-> first.raised, exc |-> first.exc, msg |-> first.msg,
                  warnings |-> first.warned, called |-> FALSE,
                  func_args |-> IF positional = <<>> \/ first.raised THEN <<>>
                                ELSE <<first.data>> \o Tail(positional),
                  func_kwargs |-> <<>>]
        r == ValidateKwargs(tname, strict, data_type, keywords, 1, start)
    IN  IF r.raised THEN [r EXCEPT !.func_args = <<>>, !.func_kwargs = <<>>,
                                    !.warnings = <<>>]
        ELSE [r EXCEPT !.called = TRUE,
                       !.func_kwargs = IF version = "bak" THEN keywords ELSE @]

\* the values handed to a validated function
InputValues ==
    JLists
    \cup {JDict(<<<<"a">>>>, <<v>>) : v \in JLists \cup {JStr(<<"x">>)}}
    \cup {JDict(<<<<"a">>, <<"b">>>>, <<v, w>>) :
            v, w \in {JList(<<JNum(1)>>), JList(<<JNum(1), JNum(1)>>)}}

KeywordNames == {"data", "y_data", "x_data", "alpha"}

KeywordValues ==
    {JList(<<JNum(1)>>), JList(<<JStr(<<"x">>)>>),
     JDict(<<<<"a">>>>, <<JStr(<<"x">>)>>)}

InitValidate ==
    /\ pc = "call"
    /\ \E version \in {"base", "bak"}, strict \in BOOLEAN,
          data_type \in {"econometric", "generic"},
          positional \in SeqsUpTo(InputValues, 1),
          n \in 0..2 :
       \E keys \in [1..n -> KeywordNames] :
       \E values \in [1..n -> KeywordValues] :
          /\ Distinct(keys)
          /\ args = [version |-> version, tool |-> "func", strict |-> strict,
                     data_type |-> data_type, positional |-> positional,
                     keywords |-> [i \in 1..n |-> [key |-> keys[i],
                                                   value |-> values[i]]]]
    /\ result = <<>>
    /\ IdleOthers

CallValidateInput ==
    /\ pc = "call"
    /\ result' = ValidateInput(args.version, args.tool, args.strict,
                               args.data_type, args.positional, args.keywords)
    /\ pc' = "done"
    /\ UNCHANGED <<args, othervars>>

NextValidate == CallValidateInput

SpecValidate == InitValidate /\ [][NextValidate]_vars

-----------------------------------------------------------------------------
(* ols_regression and gmm_estimation: the shape of the result record.      *)
(* The numbers are left out; a list of numbers is modelled by its length.  *)

MsgEmptyData == "y and x data must not be empty"
MsgLengthMismatch == "y and x differ in length"
MsgInstrumentMismatch == "y and the instruments differ in length"
MsgTooFewInstruments == "fewer instruments than parameters"

EstimateRaise(exc, msg) == [raised |-> TRUE, exc |-> exc, msg |-> msg]

\* a result record whose six lists come from arrays of one length
Estimated(n_coef, feature_names, n_obs, n_moments) ==
    [raised |-> FALSE, exc |-> "", msg |-> "",
     coefficients |-> n_coef, std_errors |-> n_coef, t_values |-> n_coef,
     p_values |-> n_coef, conf_int_lower |-> n_coef, conf_int_upper |-> n_coef,
     n_obs |-> n_obs, n_moments |-> n_moments, feature_names |-> feature_names]

ConstName == [base |-> "const", index |-> 0]

\* the names the caller gives: one per column of x
GivenNames(k) == [i \in 1..k |-> [base |-> "given", index |-> i]]

\* [f"x{i + shift}" for i in range(cols)]
XNames(cols, shift) == [i \in 1..cols |-> [base |-> "x", index |-> i - 1 + shift]]

\* the single-observation branch, the same in both estimators
SingleObservation(a) ==
    IF a.constant
    THEN Estimated(2, IF a.feature_names # <<>> THEN <<ConstName>> \o a.feature_names
                      ELSE <<ConstName, [base |-> "x", index |-> 0]>>, 1, 2)
    ELSE Estimated(1, IF a.feature_names # <<>> THEN a.feature_names
                      ELSE <<[base |-> "x", index |-> 0]>>, 1, 1)

\* the fallback of ols_regression, entered with cols columns and names
OlsFallback(a, cols, names) ==
    LET cols2 == IF a.constant THEN cols + 1 ELSE cols
        names2 == IF a.constant
                  THEN IF names # <<>> THEN <<ConstName>> \o names
                       ELSE XNames(cols2, 0)
                  ELSE IF names # <<>> THEN names ELSE XNames(cols2, 0)
    IN  Estimated(cols2, names2, a.n, 0)

\* ols_regression; a.library says where the statistics library fails, if it
\* does; sm.add_constant adds no column to an x that holds a constant column
OlsRegression(a) ==
    IF a.n = 0 \/ a.x_rows = 0 THEN EstimateRaise("ValueError", MsgEmptyData)
    ELSE IF a.n # a.x_rows THEN EstimateRaise("ValueError", MsgLengthMismatch)
    ELSE IF a.n = 1 THEN SingleObservation(a)
    ELSE IF a.library = "import" THEN OlsFallback(a, a.k, a.feature_names)
    ELSE LET cols == IF a.constant /\ ~a.const_column THEN a.k + 1 ELSE a.k
             names == IF a.constant
                      THEN IF a.feature_names # <<>>
                           THEN <<ConstName>> \o a.feature_names
                           ELSE XNames(cols, -1)
                      ELSE IF a.feature_names # <<>> THEN a.feature_names
                           ELSE XNames(cols, 0)
         IN  IF a.library = "fit" THEN OlsFallback(a, cols, names)
             ELSE Estimated(cols, names, a.n, 0)

\* the p-value 1.0, in thousandths
CertainP == 1000

\* the p-value of the J statistic taken from the chi-square distribution
\* whatever the degrees of freedom
JPValueFromChi2(df, chi2_p) == chi2_p

\* the p-value of the J statistic: with no degree of freedom left it is set
\* to 1.0; a.chi2_p is what 1 - chi2.cdf gives for the data
JPValue(df, chi2_p) == IF df > 0 THEN chi2_p ELSE CertainP

\* the record of gmm_estimation: the lists and the J p-value
WithJ(r, j_p_value) == r @@ [j_p_value |-> j_p_value]

\* gmm_estimation; a.z_cols = 0 is instruments=None
GmmEstimation(a) ==
    IF a.n = 0 \/ a.x_rows = 0 THEN EstimateRaise("ValueError", MsgEmptyData)
    ELSE IF a.n # a.x_rows THEN EstimateRaise("ValueError", MsgLengthMismatch)
    ELSE IF a.n = 1 THEN WithJ(SingleObservation(a), CertainP)
    ELSE IF a.z_cols # 0 /\ a.z_rows # a.n
    THEN EstimateRaise("ValueError", MsgInstrumentMismatch)
    ELSE LET z == IF a.z_cols = 0 THEN a.k ELSE a.z_cols
             k == IF a.constant THEN a.k + 1 ELSE a.k
             l == IF a.constant THEN z + 1 ELSE z
             names == IF a.feature_names # <<>>
                      THEN IF a.constant THEN <<ConstName>> \o a.feature_names
                           ELSE a.feature_names
                      ELSE XNames(k, 0)
         IN  IF l < k THEN EstimateRaise("ValueError", MsgTooFewInstruments)
             ELSE IF a.library = "fails"
             THEN EstimateRaise("LinAlgError", "Singular matrix")
             ELSE WithJ(Estimated(k, names, a.n, l), JPValue(l - k, a.chi2_p))

\* the p-values the chi-square distribution gives, in thousandths
Chi2PValues == {0, 500, 1000}

InitEstimate ==
    /\ pc = "call"
    /\ \E estimator \in {"ols", "gmm"}, n \in 0..MaxObs, more \in 0..1,
          k \in 1..MaxCols, named, constant, const_column \in BOOLEAN,
          z_cols \in 0..MaxCols, z_more \in 0..1,
          library \in {"ok", "import", "fit", "fallback", "fails"},
          chi2_p \in Chi2PValues :
          /\ estimator = "ols" =>
                /\ library \in {"ok", "import", "fit"}
                /\ z_cols = 0 /\ z_more = 0 /\ chi2_p = 0
          /\ estimator = "gmm" =>
                /\ library \in {"ok", "fallback", "fails"}
                /\ ~const_column
          /\ args = [estimator |-> estimator, n |-> n, x_rows |-> n + more,
                     k |-> k,
                     feature_names |-> IF named THEN GivenNames(k) ELSE <<>>,
                     constant |-> constant, const_column |-> const_column,
                     z_cols |-> z_cols, z_rows |-> n + z_more,
                     library |-> library, chi2_p |-> chi2_p]
    /\ result = <<>>
    /\ IdleOthers

CallOlsRegression ==
    /\ pc = "call"
    /\ args.estimator = "ols"
    /\ result' = OlsRegression(args)
    /\ pc' = "done"
    /\ UNCHANGED <<args, othervars>>

CallGmmEstimation ==
    /\ pc = "call"
    /\ args.estimator = "gmm"
    /\ result' = GmmEstimation(args)
    /\ pc' = "done"
    /\ UNCHANGED <<args, othervars>>

NextEstimate == CallOlsRegression \/ CallGmmEstimation

SpecEstimate == InitEstimate /\ [][NextEstimate]_vars

-----------------------------------------------------------------------------
(* mle_estimation, regularized_regression and robust_errors_regression:    *)
(* what each does with its enumerated option                               *)

Distributions == {"normal", "poisson", "exponential"}
Methods == {"ridge", "lasso", "elastic_net"}
CovTypes == {"HC0", "HC1", "HC2", "HC3"}

MsgNoData == "data must not be empty"
MsgNegativeData == "data must be non-negative"
MsgBadDistribution == "unsupported distribution"
MsgEmptyInput == "input data must not be empty"
MsgObsMismatch == "y and x must have the same number of observations"
MsgBadMethod == "method must be ridge, lasso or elastic_net"
MsgNoColumns == "tuple index out of range"
MsgSingular == "Singular matrix"
MsgShapes == "matmul: mismatch of the dimensions"

\* a result record; used is the branch of the option that computed it
OptionResult(used, n_obs) ==
    [raised |-> FALSE, exc |-> "", msg |-> "", used |-> used, n_obs |-> n_obs]

OptionRaise(exc, msg) ==
    [raised |-> TRUE, exc |-> exc, msg |-> msg, used |-> "", n_obs |-> 0]

\* mle_estimation
MleEstimation(a) ==
    IF a.n = 0 THEN OptionRaise("ValueError", MsgNoData)
    ELSE IF a.option \in {"exponential", "poisson"} /\ a.negative
    THEN OptionRaise("ValueError", MsgNegativeData)
    ELSE IF a.option \in Distributions THEN OptionResult(a.option, a.n)
    ELSE OptionRaise("ValueError", MsgBadDistribution)

\* regularized_regression; x has a.n rows of a.p columns, y has a.y_len values
RegularizedRegression(a) ==
    IF a.n * a.p = 0 \/ a.y_len = 0 THEN OptionRaise("ValueError", MsgEmptyInput)
    ELSE IF a.y_len # a.n THEN OptionRaise("ValueError", MsgObsMismatch)
    ELSE IF a.option \in Methods THEN OptionResult(a.option, a.n)
    ELSE OptionRaise("ValueError", MsgBadMethod)

\* robust_errors_regression(y_data, x_data, constant=constant, cov_type=option)
\* with x_data of a.n rows of a.p regressors, a.zero_x when every entry of
\* x_data is zero, and feature_names left at None. An empty x_data is an
\* array of one dimension: without the constant column X.shape[1] raises
\* IndexError, with it X is a matrix of no rows. X'X is singular with trace
\* zero exactly when X has no rows or only zeros: the first np.linalg.inv
\* raises LinAlgError, the regularisation of the handler adds nothing, and
\* the second inv raises LinAlgError out of the function. Any other
\* singular X'X is regularised by a positive multiple of the identity and
\* inverted. A y of another length stops the product X'y. After that the
\* last branch of the chain over cov_type computes HC1
RobustErrorsRegression(a) ==
    IF a.n = 0 /\ ~a.constant THEN OptionRaise("IndexError", MsgNoColumns)
    ELSE IF a.n = 0 \/ (~a.constant /\ a.zero_x)
    THEN OptionRaise("LinAlgError", MsgSingular)
    ELSE IF a.y_len # a.n THEN OptionRaise("ValueError", MsgShapes)
    ELSE IF a.option \in CovTypes THEN OptionResult(a.option, a.n)
    ELSE OptionResult("HC1", a.n)

Estimators == {"mle_estimation", "regularized_regression", "robust_errors_regression"}

\* the options tried: the documented ones of the three functions, a name
\* none of them documents, a name in another case, and the empty string
Options == Distributions \cup Methods \cup CovTypes \cup {"gamma", "hc1", ""}

InitOption ==
    /\ pc = "call"
    /\ \E estimator \in Estimators, option \in Options, n \in 0..MaxObs,
          p \in 1..MaxCols, more \in 0..1, negative \in BOOLEAN,
          constant \in BOOLEAN, zero_x \in BOOLEAN :
          /\ estimator = "mle_estimation" => p = 1 /\ more = 0
          /\ estimator # "mle_estimation" => ~negative
          /\ n = 0 => zero_x
          /\ estimator # "robust_errors_regression" => constant /\ zero_x = (n = 0)
          /\ args = [estimator |-> estimator, option |-> option, n |-> n,
                     p |-> p, y_len |-> n + more, negative |-> negative,
                     constant |-> constant, zero_x |-> zero_x]
    /\ result = <<>>
    /\ IdleOthers

CallMleEstimation ==
    /\ pc = "call"
    /\ args.estimator = "mle_estimation"
    /\ result' = MleEstimation(args)
    /\ pc' = "done"
    /\ UNCHANGED <<args, othervars>>

CallRegularizedRegression ==
    /\ pc = "call"
    /\ args.estimator = "regularized_regression"
    /\ result' = RegularizedRegression(args)
    /\ pc' = "done"
    /\ UNCHANGED <<args, othervars>>

CallRobustErrorsRegression ==
    /\ pc = "call"
    /\ args.estimator = "robust_errors_regression"
    /\ result' = RobustErrorsRegression(args)
    /\ pc' = "done"
    /\ UNCHANGED <<args, othervars>>

NextOption ==
    CallMleEstimation \/ CallRegularizedRegression \/ CallRobustErrorsRegression

SpecOption == InitOption /\ [][NextOption]_vars

-----------------------------------------------------------------------------
(* adf_test, pp_test and kpss_test. A p-value and a statistic are counted  *)
(* in thousandths: 50 is 0.05. The statistics library either fails or      *)
(* returns a p-value; data is a list of a.n values or, with a.sized FALSE, *)
(* a value that has no length, such as None.                               *)

UnitRootTests == {"adf_test", "pp_test", "kpss_test"}

\* 0.05, the level both conventions compare the p-value with
Level == 50

AdfFallbackP == 50
PpFallbackP == 70
KpssFallbackP == 30

AdfFallbackStatistic == -2500
PpFallbackStatistic == -2300
KpssFallbackStatistic == 400

\* the statistic the library returns; its value plays no part
LibraryStatistic == 0

TestType(test) ==
    CASE test = "adf_test" -> "Augmented Dickey-Fuller Test"
      [] test = "pp_test" -> "Phillips-Perron Test"
      [] test = "kpss_test" -> "KPSS Test"

UnitRootTestResult(test, statistic, p_value, stationary, n_obs, fallback) ==
    [raised |-> FALSE, exc |-> "", test_type |-> TestType(test),
     test_statistic |-> statistic, p_value |-> p_value,
     stationary |-> stationary, n_obs |-> n_obs, fallback |-> fallback]

UnitRootRaise(exc) ==
    [raised |-> TRUE, exc |-> exc, test_type |-> "", test_statistic |-> 0,
     p_value |-> 0, stationary |-> FALSE, n_obs |-> 0, fallback |-> TRUE]

\* the except branch: the fixed record, built with len(data)
UnitRootFallback(a, statistic, p_value, stationary) ==
    IF ~a.sized THEN UnitRootRaise("TypeError")
    ELSE UnitRootTestResult(a.test, statistic, p_value, stationary, a.n, TRUE)

AdfTest(a) ==
    IF a.library.ok
    THEN UnitRootTestResult(a.test, LibraryStatistic, a.library.p,
                            a.library.p < Level, a.library.n_obs, FALSE)
    ELSE UnitRootFallback(a, AdfFallbackStatistic, AdfFallbackP, FALSE)

PpTest(a) ==
    IF a.library.ok
    THEN UnitRootTestResult(a.test, LibraryStatistic, a.library.p,
                            a.library.p < Level, a.library.n_obs, FALSE)
    ELSE UnitRootFallback(a, PpFallbackStatistic, PpFallbackP, FALSE)

KpssTest(a) ==
    IF a.library.ok
    THEN UnitRootTestResult(a.test, LibraryStatistic, a.library.p,
                            a.library.p > Level, a.n, FALSE)
    ELSE UnitRootFallback(a, KpssFallbackStatistic, KpssFallbackP, TRUE)

\* the p-values the library returns: both ends, the level and its neighbours
PValues == {0, 30, 49, 50, 51, 70, 1000}

LibraryFails == [ok |-> FALSE, p |-> 0, n_obs |-> 0]

InitUnitRoot ==
    /\ pc = "call"
    /\ \E test \in UnitRootTests, sized \in BOOLEAN, n \in 0..MaxObs,
          ok \in BOOLEAN, p \in PValues, used \in 0..MaxObs :
          /\ ~sized => n = 0
          \* the library computes nothing from data that has no length
          /\ ok => sized /\ used <= n
          /\ ~ok => p = 0 /\ used = 0
          /\ args = [test |-> test, sized |-> sized, n |-> n,
                     library |-> IF ok THEN [ok |-> TRUE, p |-> p, n_obs |-> used]
                                 ELSE LibraryFails]
    /\ result = <<>>
    /\ IdleOthers

CallAdfTest ==
    /\ pc = "call"
    /\ args.test = "adf_test"
    /\ result' = AdfTest(args)
    /\ pc' = "done"
    /\ UNCHANGED <<args, othervars>>

CallPpTest ==
    /\ pc = "call"
    /\ args.test = "pp_test"
    /\ result' = PpTest(args)
    /\ pc' = "done"
    /\ UNCHANGED <<args, othervars>>

CallKpssTest ==
    /\ pc = "call"
    /\ args.test = "kpss_test"
    /\ result' = KpssTest(args)
    /\ pc' = "done"
    /\ UNCHANGED <<args, othervars>>

NextUnitRoot == CallAdfTest \/ CallPpTest \/ CallKpssTest

SpecUnitRoot == InitUnitRoot /\ [][NextUnitRoot]_vars

-----------------------------------------------------------------------------
(* diff_gmm_model and sys_gmm_model. A sequence is modelled by its length; *)
(* a.duplicate says the (entity, time) pairs hold one pair twice;          *)
(* a.library says whether the estimator class can be imported and whether  *)
(* its fit succeeds.                                                       *)

PrefixDiffGmm == "difference GMM fit failed: "
PrefixSysGmm == "system GMM fit failed: "

MsgImport == "cannot import the estimator"
MsgNoY == "y data must not be empty"
MsgNoX == "x data must not be empty"
MsgNoEntity == "entity ids must not be empty"
MsgNoTime == "time periods must not be empty"
MsgUnequalLengths == "all sequences must have the same length"
MsgDuplicateIndex == "duplicate entity-time index"
MsgArraysLength == "all arrays must be same length"
MsgValuesLength == "length of values does not match length of index"
MsgFit == "the fit failed"

\* raise ValueError(prefix + str(e)); fit_called tells whether fit was reached
PanelRaise(prefix, msg, fit_called) ==
    [raised |-> TRUE, exc |-> "ValueError", prefix |-> prefix, msg |-> msg,
     fit_called |-> fit_called, model_type |-> "", n_obs |-> 0]

DynamicPanelResult(model_type, n_obs) ==
    [raised |-> FALSE, exc |-> "", prefix |-> "", msg |-> "",
     fit_called |-> TRUE, model_type |-> model_type, n_obs |-> n_obs]

\* the lengths of y, the ids, the periods and every x series
Lengths(a) == <<a.n_y, a.n_ids, a.n_times>> \o a.x_lens

AllEqual(q) == \A i, j \in 1..Len(q) : q[i] = q[j]

\* model.fit() and the extraction of its results
PanelFit(a, prefix, model_type) ==
    IF a.library = "fit_fails" THEN PanelRaise(prefix, MsgFit, TRUE)
    ELSE DynamicPanelResult(model_type, a.n_y)

\* diff_gmm_model
DiffGmmModel(a) ==
    IF a.library = "missing" THEN PanelRaise(PrefixDiffGmm, MsgImport, FALSE)
    ELSE IF a.n_y = 0 THEN PanelRaise(PrefixDiffGmm, MsgNoY, FALSE)
    ELSE IF a.x_lens = <<>> THEN PanelRaise(PrefixDiffGmm, MsgNoX, FALSE)
    ELSE IF a.n_ids = 0 THEN PanelRaise(PrefixDiffGmm, MsgNoEntity, FALSE)
    ELSE IF a.n_times = 0 THEN PanelRaise(PrefixDiffGmm, MsgNoTime, FALSE)
    ELSE IF ~AllEqual(Lengths(a))
    THEN PanelRaise(PrefixDiffGmm, MsgUnequalLengths, FALSE)
    ELSE IF a.duplicate THEN PanelRaise(PrefixDiffGmm, MsgDuplicateIndex, FALSE)
    ELSE PanelFit(a, PrefixDiffGmm, "Difference GMM (Arellano-Bond)")

\* sys_gmm_model: the index and the frames are built with no check of its
\* own; pandas refuses index arrays and columns of another length
SysGmmModel(a) ==
    IF a.library = "missing" THEN PanelRaise(PrefixSysGmm, MsgImport, FALSE)
    ELSE IF a.n_ids # a.n_times
    THEN PanelRaise(PrefixSysGmm, MsgArraysLength, FALSE)
    ELSE IF a.n_y # a.n_ids \/ \E i \in 1..Len(a.x_lens) : a.x_lens[i] # a.n_ids
    THEN PanelRaise(PrefixSysGmm, MsgValuesLength, FALSE)
    ELSE PanelFit(a, PrefixSysGmm, "System GMM (Blundell-Bond)")

InitPanel ==
    /\ pc = "call"
    /\ \E model \in {"diff_gmm_model", "sys_gmm_model"},
          n_y, n_ids, n_times \in 0..MaxObs,
          x_lens \in SeqsUpTo(0..MaxObs, 1),
          duplicate \in BOOLEAN,
          library \in {"missing", "fit_fails", "ok"} :
          \* a pair can be there twice only among two pairs or more
          /\ duplicate => n_ids >= 2 /\ n_times >= 2
          /\ args = [model |-> model, n_y |-> n_y, n_ids |-> n_ids,
                     n_times |-> n_times, x_lens |-> x_lens,
                     duplicate |-> duplicate, library |-> library]
    /\ result = <<>>
    /\ IdleOthers

CallDiffGmmModel ==
    /\ pc = "call"
    /\ args.model = "diff_gmm_model"
    /\ result' = DiffGmmModel(args)
    /\ pc' = "done"
    /\ UNCHANGED <<args, othervars>>

CallSysGmmModel ==
    /\ pc = "call"
    /\ args.model = "sys_gmm_model"
    /\ result' = SysGmmModel(args)
    /\ pc' = "done"
    /\ UNCHANGED <<args, othervars>>

NextPanel == CallDiffGmmModel \/ CallSysGmmModel

SpecPanel == InitPanel /\ [][NextPanel]_vars

-----------------------------------------------------------------------------
(* _lasso_coordinate_descent and _elastic_net_coordinate_descent: the      *)
(* outer loop. A change of a coefficient is counted in units of 1e-7; what *)
(* a sweep over the coefficients changes depends on the data and is left   *)
(* open.                                                                   *)

\* max_iter
MaxIter == 2000

\* tol, 1e-6
Tol == 10

\* the largest change a round may make: none, just below tol, tol, more
Changes == {0, 9, 10, 11}

\* a loop that goes one round beyond max_iter
ContinuesOneMore(iteration, max_change) ==
    max_change >= Tol /\ iteration <= MaxIter

\* after a round: no break, and range(max_iter) is not exhausted
Continues(iteration, max_change) ==
    max_change >= Tol /\ iteration < MaxIter

InitDescent ==
    /\ pc = "loop"
    /\ \E method \in {"lasso", "elastic_net"}, p \in 0..1 :
          args = [method |-> method, p |-> p]
    /\ result = [iteration |-> 0, max_change |-> 0, returned |-> FALSE]
    /\ IdleOthers

\* one round of the outer loop: the sweep over the p coefficients, then the
\* test of convergence; the function returns when the loop ends
DescentRound ==
    /\ pc = "loop"
    /\ \E change \in Changes :
          /\ args.p = 0 => change = 0
          /\ LET done == ~Continues(result.iteration + 1, change)
             IN  /\ result' = [iteration |-> result.iteration + 1,
                               max_change |-> change, returned |-> done]
                 /\ pc' = IF done THEN "done" ELSE "loop"
    /\ UNCHANGED <<args, othervars>>

NextDescent == DescentRound

SpecDescent == InitDescent /\ [][NextDescent]_vars /\ WF_vars(DescentRound)

-----------------------------------------------------------------------------
(* The entry points: serve of the launcher cli.py, main of the package's   *)
(* cli.py, main of fastmcp_server.py. A flag that is not given is "" and   *)
(* takes the default of its click option. What is written is kept as the   *)
(* sequence of its lines, one name per echo or print.                      *)

Transports == {"stdio", "streamable-http", "sse"}

DefaultHost == "127.0.0.1"

DefaultPort == "8000"

\* a click option: the flag's value, or the default when it is not given
Flag(given, default) == IF given = "" THEN default ELSE given

Launched(out, err, runner, transport, host, port, mount_path) ==
    [stdout |-> out, stderr |-> err, runner |-> runner,
     transport |-> transport, host |-> host, port |-> port,
     mount_path |-> mount_path]

When(cond, lines) == IF cond THEN lines ELSE <<>>

\* the four lines both HTTP branches of serve echo, then the mount path
HttpBanner(mount_path) ==
    <<"starting", "about", "transport", "address">>
        \o When(mount_path # "", <<"mount_path">>)

\* cli.py, serve
Serve(a) ==
    LET transport == Flag(a.transport, "stdio")
        host == Flag(a.host, DefaultHost)
        port == Flag(a.port, DefaultPort)
        debug == When(a.debug, <<"debug">>)
    IN  CASE transport = "stdio" ->
                Launched(<<>>,
                         debug \o <<"starting", "transport">> \o debug
                               \o <<"ready">>,
                         "mcp.run", "stdio", "", "", "")
          [] transport = "streamable-http" ->
                Launched(<<>>, debug \o HttpBanner(a.mount_path),
                         "uvicorn.run", "streamable-http", host, port, "")
          [] transport = "sse" ->
                Launched(<<>>, debug \o HttpBanner(a.mount_path),
                         "uvicorn.run", "sse", host, port, "")

\* aigroup_econ_mcp/cli.py, main
PackageMain(a) ==
    LET transport == Flag(a.transport, "streamable-http")
        host == Flag(a.host, DefaultHost)
        port == Flag(a.port, DefaultPort)
        banner == When(a.debug, <<"debug">>)
                     \o <<"starting", "about", "transport", "address">>
                     \o When(a.mount_path # "", <<"mount_path">>)
    IN  CASE transport = "stdio" ->
                Launched(banner, <<>>, "mcp.run", "stdio", "", "", "")
          [] transport = "streamable-http" ->
                Launched(banner, <<>>, "mcp.run", "streamable-http",
                         host, port, Flag(a.mount_path, "/mcp"))
          [] transport = "sse" ->
                Launched(banner, <<>>, "mcp.run", "sse",
                         host, port, Flag(a.mount_path, "/sse"))

\* fastmcp_server.py, main: eighteen calls of print, then the pipe transport
ServerMain(a) ==
    Launched(<<"rule", "title", "rule", "architecture", "groups",
               "group", "group", "group", "total", "formats", "input",
               "output", "advantages", "advantage", "advantage",
               "advantage", "starting", "rule">>,
             <<>>, "mcp.run", "stdio", "", "", "")

InitLaunch ==
    /\ pc = "call"
    /\ \E entry \in {"serve", "package_main", "server_main"},
          transport \in Transports \cup {""},
          host \in {"", "0.0.0.0"}, port \in {"", "9000"},
          debug \in BOOLEAN, mount_path \in {"", "/econ"} :
          /\ entry = "server_main" =>
                /\ transport = "" /\ host = "" /\ port = ""
                /\ ~debug /\ mount_path = ""
          /\ args = [entry |-> entry, transport |-> transport,
                     host |-> host, port |-> port, debug |-> debug,
                     mount_path |-> mount_path]
    /\ result = Launched(<<>>, <<>>, "", "", "", "", "")
    /\ IdleOthers

CallServe ==
    /\ pc = "call"
    /\ args.entry = "serve"
    /\ result' = Serve(args)
    /\ pc' = "done"
    /\ UNCHANGED <<args, othervars>>

CallPackageMain ==
    /\ pc = "call"
    /\ args.entry = "package_main"
    /\ result' = PackageMain(args)
    /\ pc' = "done"
    /\ UNCHANGED <<args, othervars>>

CallServerMain ==
    /\ pc = "call"
    /\ args.entry = "server_main"
    /\ result' = ServerMain(args)
    /\ pc' = "done"
    /\ UNCHANGED <<args, othervars>>

NextLaunch ==
    \/ CallServe
    \/ CallPackageMain
    \/ CallServerMain

SpecLaunch == InitLaunch /\ [][NextLaunch]_vars

-----------------------------------------------------------------------------
(* A tool registered in aigroup_econ_mcp/server.py called once through the *)
(* wrappers of its decorator, which are applied with their defaults:       *)
(* logging, file input and error handling all on.                          *)

\* the data arguments a caller passes to a registered tool
RegisteredCallerData(tool) ==
    {NoData}
    \cup (IF "data" \in Parameters(tool) THEN {[data |-> <<9>>]} ELSE {})
    \cup (IF "y_data" \in Parameters(tool) THEN {[y_data |-> <<9>>]} ELSE {})

InitRegistered ==
    /\ pc = "decorate"
    /\ flags = [with_file_support |-> TRUE, with_error_handling |-> TRUE,
                with_logging |-> TRUE]
    /\ tool_name \in RegisteredTools
    /\ tool_type = ToolTypeOf(tool_name)
    /\ \E path \in FilePaths, text \in FileContents \cup {PanelContent},
          fmt \in {"auto", "csv"}, data \in RegisteredCallerData(tool_name) :
          kwargs = [file_path |-> path, file_content |-> text,
                    file_format |-> fmt] @@ data
    /\ passed = kwargs
    /\ body \in Bodies
    /\ wrapped = <<>>
    /\ stack = <<>>
    /\ called = FALSE
    /\ log = <<>>
    /\ outcome = NoOutcome
    /\ content = <<>>
    /\ doc = NoDoc
    /\ file_format = ""
    /\ parsed = NoParsed
    /\ converted = NoConverted
    /\ dataset = <<>>
    /\ IdleCsv
    /\ IdleCall

SpecRegistered == InitRegistered /\ [][NextTool]_vars

-----------------------------------------------------------------------------
(* _cross_validation: the loop over the folds. Observations are numbered   *)
(* from 1; indices is the shuffled order. Whether a fold's prediction is   *)
(* finite and whether its algebra raises depends on the data and is left   *)
(* open.                                                                   *)

\* the largest number of observations
MaxFoldObs == 4

\* the orders np.random.shuffle may leave n indices in
Shuffles(n) ==
    {q \in [1..n -> 1..n] : \A i, j \in 1..n : q[i] = q[j] => i = j}

\* folds == -1 or folds >= n: leave one out
EffectiveFolds(folds, n) == IF folds = -1 \/ folds >= n THEN n ELSE folds

\* np.full(folds, n // folds), the first n % folds one larger
FoldSizes(folds, n) ==
    [k \in 1..folds |-> (n \div folds) + (IF k <= n % folds THEN 1 ELSE 0)]

\* what happens to a fold
FoldOutcomes == {"scored", "not_finite", "raised"}

NoFolds == [returned |-> FALSE, none |-> FALSE, k |-> 0, current |-> 0,
            tests |-> <<>>, mse_scores |-> 0]

InitFolds ==
    /\ pc = "call"
    /\ \E n \in 1..MaxFoldObs, folds \in -1..(MaxFoldObs + 1),
          cols \in 1..2 :
       \E indices \in Shuffles(n) :
          args = [n |-> n, folds |-> folds, cols |-> cols,
                  x_rows |-> n, indices |-> indices]
    /\ result = NoFolds
    /\ IdleOthers

\* up to the loop: the number of folds, or None at once
CrossValidationStart ==
    /\ pc = "call"
    /\ LET folds == EffectiveFolds(args.folds, args.n)
       IN  IF folds <= 1 \/ args.x_rows # args.n
           THEN /\ result' = [result EXCEPT !.returned = TRUE, !.none = TRUE]
                /\ pc' = "done"
           ELSE /\ result' = result
                /\ pc' = "fold"
    /\ UNCHANGED <<args, othervars>>

\* one round of the loop over fold_sizes; continue leaves current as it is,
\* the end of the body sets it to stop
FoldStep ==
    /\ pc = "fold"
    /\ LET folds == EffectiveFolds(args.folds, args.n)
           k == result.k + 1
       IN  /\ k <= folds
           /\ LET fold_size == FoldSizes(folds, args.n)[k]
                  start == result.current
                  stop == result.current + fold_size
                  test_idx == {args.indices[i] : i \in (start + 1)..stop}
                  train_rows == args.n - Cardinality(test_idx)
                  too_small == \/ train_rows < args.cols
                               \/ train_rows = 0
                               \/ test_idx = {}
              IN  \E o \in FoldOutcomes :
                     /\ result' =
                           [result EXCEPT
                              !.k = k,
                              !.tests = Append(@, test_idx),
                              !.current = IF too_small \/ o = "not_finite"
                                          THEN @ ELSE stop,
                              !.mse_scores = IF ~too_small /\ o = "scored"
                                             THEN @ + 1 ELSE @]
    /\ UNCHANGED <<pc, args, othervars>>

\* after the loop: the mean of the scores, or None without a score
CrossValidationReturn ==
    /\ pc = "fold"
    /\ result.k = EffectiveFolds(args.folds, args.n)
    /\ result' = [result EXCEPT !.returned = TRUE,
                                !.none = (result.mse_scores = 0)]
    /\ pc' = "done"
    /\ UNCHANGED <<args, othervars>>

NextFolds ==
    \/ CrossValidationStart
    \/ FoldStep
    \/ CrossValidationReturn

SpecFolds == InitFolds /\ [][NextFolds]_vars

-----------------------------------------------------------------------------
(* data_loader.py: the data argument is known by its type; a string is a   *)
(* path, whose file exists or not when path.exists() asks, and which       *)
(* pandas reads, does not find, or fails to read. With a ctx the function  *)
(* awaits ctx.info at each notice.                                         *)

DataKinds == {"dict", "str", "list", "matrix", "none"}

\* what pd.read_csv does: it returns the frame, raises FileNotFoundError,
\* or raises another exception
Reads == {"ok", "not_found", "fails"}

MsgNoFile == "file does not exist"
MsgReadFailed == "reading the CSV file failed: "
MsgXReadFailed == "reading the CSV file of the regressors failed: "
MsgLibrary == "error of the library"
MsgBadType == "unsupported data type"

\* value is the type of what was returned; "none" is None
Loaded(value, notices) ==
    [raised |-> FALSE, exc |-> "", msg |-> <<>>, value |-> value,
     notices |-> notices]

\* msg is str(e): the parts of the message in their order
LoadRaise(exc, msg, notices) ==
    [raised |-> TRUE, exc |-> exc, msg |-> msg, value |-> "",
     notices |-> notices]

\* the branch of a string. The ValueError of a file path.exists() does not
\* find is raised inside the try block and so is caught by `except
\* Exception` and raised again behind the prefix of a failed read;
\* FileNotFoundError of the read has its own handler; every other
\* exception is raised again behind the prefix
LoadPath(a, value, prefix, notices) ==
    LET told == IF a.ctx THEN 1 ELSE 0
    IN  IF ~a.exists
        THEN LoadRaise("ValueError", <<prefix, MsgNoFile>>, told)
        ELSE IF a.read = "not_found"
        THEN LoadRaise("ValueError", <<MsgNoFile>>, told)
        ELSE IF a.read = "fails"
        THEN LoadRaise("ValueError", <<prefix, MsgLibrary>>, told)
        ELSE Loaded(value, IF a.ctx THEN notices ELSE 0)

\* load_data_if_path: the function ends after the branch of a string
LoadDataIfPath(a) ==
    IF a.kind = "dict" THEN Loaded("dict", 0)
    ELSE IF a.kind = "str" THEN LoadPath(a, "dict", MsgReadFailed, 2)
    ELSE Loaded("none", 0)

\* load_single_var_if_path, without column_name: the first column is used
\* and a notice says so
LoadSingleVarIfPath(a) ==
    IF a.kind \in {"list", "matrix"} THEN Loaded(a.kind, 0)
    ELSE IF a.kind = "str" THEN LoadPath(a, "list", MsgReadFailed, 3)
    ELSE LoadRaise("TypeError", <<MsgBadType>>, 0)

\* load_x_data_if_path
LoadXDataIfPath(a) ==
    IF a.kind = "matrix" THEN Loaded("matrix", 0)
    ELSE IF a.kind = "str" THEN LoadPath(a, "matrix", MsgXReadFailed, 2)
    ELSE LoadRaise("TypeError", <<MsgBadType>>, 0)

\* what the call of the loader ends in
LoadResult(a) ==
    CASE a.loader = "load_data_if_path" -> LoadDataIfPath(a)
      [] a.loader = "load_single_var_if_path" -> LoadSingleVarIfPath(a)
      [] a.loader = "load_x_data_if_path" -> LoadXDataIfPath(a)

InitLoad ==
    /\ pc = "call"
    /\ \E loader \in {"load_data_if_path", "load_single_var_if_path",
                      "load_x_data_if_path"},
          kind \in DataKinds, exists \in BOOLEAN, read \in Reads,
          ctx \in BOOLEAN :
          args = [loader |-> loader, kind |-> kind, exists |-> exists,
                  read |-> read, ctx |-> ctx]
    /\ result = Loaded("", 0)
    /\ IdleOthers

\* from the call to the first await: the notice of the path when there is
\* a path and a ctx, the end of the function otherwise
LoadStart(loader) ==
    /\ pc = "call"
    /\ args.loader = loader
    /\ IF args.kind = "str" /\ args.ctx
       THEN /\ result' = [result EXCEPT !.notices = 1]
            /\ pc' = "load_read"
       ELSE /\ result' = LoadResult(args)
            /\ pc' = "done"
    /\ UNCHANGED <<args, othervars>>

CallLoadDataIfPath == LoadStart("load_data_if_path")

CallLoadSingleVarIfPath == LoadStart("load_single_var_if_path")

CallLoadXDataIfPath == LoadStart("load_x_data_if_path")

\* after the notice of the path: path.exists() and the read, then the
\* exception or the next notice
LoadRead ==
    /\ pc = "load_read"
    /\ IF LoadResult(args).raised
       THEN /\ result' = LoadResult(args)
            /\ pc' = "done"
       ELSE /\ result' = [result EXCEPT !.notices = 2]
            /\ pc' = "load_notify"
    /\ UNCHANGED <<args, othervars>>

\* after a notice of the loaded data: the next notice, or the return
LoadNotify ==
    /\ pc = "load_notify"
    /\ IF result.notices < LoadResult(args).notices
       THEN /\ result' = [result EXCEPT !.notices = @ + 1]
            /\ pc' = "load_notify"
       ELSE /\ result' = LoadResult(args)
            /\ pc' = "done"
    /\ UNCHANGED <<args, othervars>>

NextLoad ==
    \/ CallLoadDataIfPath
    \/ CallLoadSingleVarIfPath
    \/ CallLoadXDataIfPath
    \/ LoadRead
    \/ LoadNotify

SpecLoad == InitLoad /\ [][NextLoad]_vars

-----------------------------------------------------------------------------
(* file_input_handler.py: the entry points of the module, each called      *)
(* once. kwargs without the key file_content is a call whose file_content  *)
(* is None. FileInputHandler.with_file_support and FileInputMixin have no  *)
(* try block and send no notice; UnifiedFileInput.handle, which            *)
(* process_file_for_tool awaits, sends notices and wraps every failure in  *)
(* a ValueError. None of them looks at file_path.                          *)

HandlerEntries ==
    {"with_file_support", "process_file_for_tool", "parse_file_input"}

PrefixFileFailed == "file parse failed: "

HandlerToolTypes == CallToolTypes \cup {"panel"}

Processed(params) ==
    [raised |-> FALSE, exc |-> "", msg |-> "", params |-> params]

ProcessRaise(exc, msg) ==
    [raised |-> TRUE, exc |-> exc, msg |-> msg, params |-> <<>>]

\* FileInputHandler.process_input for a file_content that is not None,
\* given what the parser and the converter answer: their exceptions are
\* left to propagate
ProcessInput(p, c, data_params) ==
    IF ~p.ok THEN ProcessRaise(p.exc, p.msg)
    ELSE IF ~c.ok THEN ProcessRaise(c.exc, c.msg)
    ELSE Processed(Update(data_params, c.kw))

\* the **kwargs of process_file_for_tool: file_content and file_format are
\* parameters of their own
OriginalParams(kw) ==
    [k \in DOMAIN kw \ {"file_content", "file_format"} |-> kw[k]]

\* the value returned is the dictionary of parameters, kept in passed
ReturnedParams == Returned(FALSE, "", "parameters")

\* the value returned is the parsed record, kept in parsed, or None
ReturnedParsed == Returned(FALSE, "", "parsed data")

\* the value returned is the converted record, kept in converted
ReturnedConverted == Returned(FALSE, "", "converted data")

\* the last notice of UnifiedFileInput.handle
ConvertedNotice(tt) ==
    IF tt = "regression" THEN Info("regression data converted")
    ELSE IF tt = "panel" THEN Info("panel data identified")
    ELSE Info("data converted")

InitHandler ==
    /\ pc = "call"
    /\ tool_type \in HandlerToolTypes
    /\ \E path \in FilePaths, fmt \in {"auto", "csv"},
          data \in CallerData(tool_type) :
          \/ kwargs = [file_path |-> path, file_format |-> fmt] @@ data
          \/ \E text \in FileContents \cup {PanelContent} :
                kwargs = [file_path |-> path, file_content |-> text,
                          file_format |-> fmt] @@ data
    /\ passed = kwargs
    /\ body \in Bodies
    /\ flags = NoFlags
    /\ wrapped = <<>>
    /\ stack = <<>>
    /\ tool_name = ""
    /\ called = FALSE
    /\ log = <<>>
    /\ outcome = NoOutcome
    /\ content = <<>>
    /\ doc = NoDoc
    /\ file_format = ""
    /\ parsed = NoParsed
    /\ converted = NoConverted
    /\ dataset = <<>>
    /\ IdleCsv
    /\ \E fn \in HandlerEntries : args = [fn |-> fn]
    /\ result = <<>>

\* the wrapper of FileInputHandler.with_file_support, up to the call of
\* func or to the exception
CallWithFileSupport ==
    /\ pc = "call"
    /\ args.fn = "with_file_support"
    /\ IF "file_content" \notin DOMAIN kwargs
       THEN /\ pc' = "func"
            /\ UNCHANGED <<parsed, converted, passed, outcome>>
       ELSE /\ parsed' = ParseFileContent(kwargs.file_content, NoDoc,
                                          kwargs.file_format)
            /\ converted' = IF parsed'.ok
                            THEN ConvertToToolFormat(parsed', tool_type)
                            ELSE NoConverted
            /\ LET processed == ProcessInput(parsed', converted', kwargs)
               IN  IF processed.raised
                   THEN /\ outcome' = Raised(processed.exc, processed.msg)
                        /\ pc' = "done"
                        /\ UNCHANGED passed
                   ELSE /\ passed' = Update(kwargs, processed.params)
                        /\ pc' = "func"
                        /\ UNCHANGED outcome
    /\ UNCHANGED <<callvars, parservars, flags, wrapped, stack, tool_name,
                   kwargs, called, body, log>>

\* return await func(*args, **kwargs)
HandlerFunc ==
    /\ pc = "func"
    /\ called' = TRUE
    /\ outcome' = IF body.raises THEN Raised(body.exc, body.msg)
                  ELSE Returned(FALSE, "", TextResult)
    /\ pc' = "done"
    /\ UNCHANGED <<callvars, parservars, parsed, converted, flags, wrapped,
                   stack, tool_name, kwargs, passed, body, log>>

\* process_file_for_tool awaits UnifiedFileInput.handle: without a file the
\* original parameters are returned, with one the input is announced
CallProcessFileForTool ==
    /\ pc = "call"
    /\ args.fn = "process_file_for_tool"
    /\ passed' = OriginalParams(kwargs)
    /\ IF "file_content" \notin DOMAIN kwargs
       THEN /\ outcome' = ReturnedParams
            /\ pc' = "done"
            /\ UNCHANGED log
       ELSE /\ log' = Append(log, Info("file input detected"))
            /\ pc' = "unified_parse"
            /\ UNCHANGED outcome
    /\ UNCHANGED <<callvars, parservars, parsed, converted, flags, wrapped,
                   stack, tool_name, kwargs, called, body>>

\* UnifiedFileInput.handle, from the announcement to the next await: the
\* parse, then the notice of its success or, in the except branch, of its
\* failure
UnifiedParse ==
    /\ pc = "unified_parse"
    /\ parsed' = ParseFileContent(kwargs.file_content, NoDoc,
                                  kwargs.file_format)
    /\ IF parsed'.ok
       THEN /\ log' = Append(log, Info("file parsed"))
            /\ pc' = "unified_convert"
       ELSE /\ log' = Append(log, Error("file parse failed"))
            /\ pc' = "unified_error"
    /\ UNCHANGED <<callvars, parservars, converted, flags, wrapped, stack,
                   tool_name, kwargs, passed, called, body, outcome>>

\* UnifiedFileInput.handle, from the notice of the parse to the next await:
\* the conversion and the merge, then the notice of the tool type or, in
\* the except branch, of the failure
UnifiedConvert ==
    /\ pc = "unified_convert"
    /\ converted' = ConvertToToolFormat(parsed, tool_type)
    /\ IF converted'.ok
       THEN /\ passed' = Update(passed, converted'.kw)
            /\ log' = Append(log, ConvertedNotice(tool_type))
            /\ pc' = "unified_return"
       ELSE /\ log' = Append(log, Error("file parse failed"))
            /\ pc' = "unified_error"
            /\ UNCHANGED passed
    /\ UNCHANGED <<callvars, parservars, parsed, flags, wrapped, stack,
                   tool_name, kwargs, called, body, outcome>>

\* UnifiedFileInput.handle, after the last notice: return result
UnifiedReturn ==
    /\ pc = "unified_return"
    /\ outcome' = ReturnedParams
    /\ pc' = "done"
    /\ UNCHANGED <<callvars, parservars, parsed, converted, flags, wrapped,
                   stack, tool_name, kwargs, passed, called, body, log>>

\* UnifiedFileInput.handle, after the notice of the failure: a ValueError
\* whose message is the prefix followed by str(e)
UnifiedError ==
    /\ pc = "unified_error"
    /\ outcome' = [Raised("ValueError",
                          IF parsed.ok THEN converted.msg ELSE parsed.msg)
                      EXCEPT !.prefix = PrefixFileFailed]
    /\ pc' = "done"
    /\ UNCHANGED <<callvars, parservars, parsed, converted, flags, wrapped,
                   stack, tool_name, kwargs, passed, called, body, log>>

\* FileInputMixin.parse_file_input: None without a file, the parsed record
\* or the parser's exception with one
CallParseFileInput ==
    /\ pc = "call"
    /\ args.fn = "parse_file_input"
    /\ IF "file_content" \notin DOMAIN kwargs
       THEN /\ outcome' = ReturnedParsed
            /\ pc' = "done"
            /\ UNCHANGED parsed
       ELSE /\ parsed' = ParseFileContent(kwargs.file_content, NoDoc,
                                          kwargs.file_format)
            /\ IF parsed'.ok
               THEN /\ outcome' = ReturnedParsed
                    /\ pc' = "parsed_input"
               ELSE /\ outcome' = Raised(parsed'.exc, parsed'.msg)
                    /\ pc' = "done"
    /\ UNCHANGED <<callvars, parservars, converted, flags, wrapped, stack,
                   tool_name, kwargs, passed, called, body, log>>

\* FileInputMixin.convert_for_tool on the record parse_file_input returned
CallConvertForTool ==
    /\ pc = "parsed_input"
    /\ converted' = ConvertToToolFormat(parsed, tool_type)
    /\ outcome' = IF converted'.ok THEN ReturnedConverted
                  ELSE Raised(converted'.exc, converted'.msg)
    /\ pc' = "done"
    /\ UNCHANGED <<callvars, parservars, parsed, flags, wrapped, stack,
                   tool_name, kwargs, passed, called, body, log>>

NextHandler ==
    \/ CallWithFileSupport
    \/ HandlerFunc
    \/ CallProcessFileForTool
    \/ UnifiedParse
    \/ UnifiedConvert
    \/ UnifiedReturn
    \/ UnifiedError
    \/ CallParseFileInput
    \/ CallConvertForTool

SpecHandler == InitHandler /\ [][NextHandler]_vars

-----------------------------------------------------------------------------
(* Claims about the parser and the shape adapter                           *)

\* the keyword arguments that hold dataset ds in the roles tool type tt gives
\* its columns: the last data column is the dependent variable
Reproduces(ds, tt, kw) ==
    LET n == Len(ds[1].vals)
        xs(from) == SubSeq(ds, from, Len(ds) - 1)
        names(cols) == [j \in 1..Len(cols) |-> cols[j].name]
        matrix(cols) == [i \in 1..n |-> [j \in 1..Len(cols) |-> cols[j].vals[i]]]
    IN  CASE tt = "single_var" ->
              kw.data = ds[1].vals /\ kw.variable_name = ds[1].name
          [] tt = "regression" ->
              /\ kw.y_data = ds[Len(ds)].vals
              /\ kw.y_variable = ds[Len(ds)].name
              /\ kw.feature_names = names(xs(1))
              /\ kw.x_data = matrix(xs(1))
          [] tt = "panel" ->
              /\ kw.entity_ids = IdText(ds[1].vals)
              /\ kw.time_periods = IdText(ds[2].vals)
              /\ kw.y_data = ds[Len(ds)].vals
              /\ kw.y_variable = ds[Len(ds)].name
              /\ kw.feature_names = names(xs(3))
              /\ kw.x_data = matrix(xs(3))
          [] OTHER -> kw.data = ds

\* C6: for every tool type, a dataset written as delimited text, parsed by
\* parse_file_content and reshaped by convert_to_tool_format comes back with
\* the same values in the same roles.
C6_RoundTripEveryToolType ==
    pc = "done" =>
        /\ parsed.ok
        /\ converted.ok
        /\ Reproduces(dataset, tool_type, converted.kw)

\* C7: every record parse_file_content returns holds sequences of one common
\* length, and n_observations is that length.
C7_EqualLengthColumns ==
    (pc = "convert" /\ parsed.ok) =>
        \A i \in 1..Len(parsed.data) :
            Len(parsed.data[i].vals) = parsed.n_observations

\* the content is handed to the detection as it is: its base64 reading fails
Undecoded == ~Decoded(content).decoded

HasDelimiter == \E i \in 1..4 : HasChar(content, Delimiters[i])

\* C9: with no declared format, a content that is no JSON text is parsed as
\* delimited text when it holds a comma, a tab, a semicolon or a pipe, and
\* the cannot-detect error is raised only when it holds none of them.
C9_DelimitedWheneverDelimiter ==
    (/\ pc = "convert"
     /\ file_format = "auto"
     /\ doc = NoDoc
     /\ Undecoded
     /\ ~JsonLoads(Strip(content), NoDoc).ok) =>
        (HasDelimiter <=> ~(parsed.exc = "ValueError" /\ parsed.msg = MsgCannotDetect))


\* the values of JsonScalars that are numbers
IsNumber(v) == v.t = "num"

\* the numbers among the values, in their order
RECURSIVE Numbers(_)
Numbers(values) ==
    IF values = <<>> THEN <<>>
    ELSE (IF IsNumber(Head(values)) THEN <<Head(values).n>> ELSE <<>>)
         \o Numbers(Tail(values))

\* the values the records give for a key, in the order of the records
RECURSIVE ValuesOfKey(_, _)
ValuesOfKey(records, key) ==
    IF records = <<>> THEN <<>>
    ELSE LET r == Head(records)
         IN  (IF \E i \in 1..Len(r.keys) : r.keys[i] = key
              THEN <<r.items[CHOOSE i \in 1..Len(r.keys) : r.keys[i] = key]>>
              ELSE <<>>) \o ValuesOfKey(Tail(records), key)

\* the parser returned a column of this name holding these values
HasColumn(name, vals) ==
    /\ parsed.ok
    /\ \E j \in 1..Len(parsed.data) :
          parsed.data[j].name = name /\ parsed.data[j].vals = vals

IsMappingForm == doc.t = "dict"

IsRecordsForm ==
    /\ doc.t = "list"
    /\ doc.items # <<>>
    /\ \A i \in 1..Len(doc.items) : doc.items[i].t = "dict"

\* list-of-records form: every key has a column, which holds the numbers the
\* records give for the key
RecordsKeepNumbers ==
    IsRecordsForm =>
        \A i \in 1..Len(doc.items) : \A k \in 1..Len(doc.items[i].keys) :
            HasColumn(doc.items[i].keys[k],
                      Numbers(ValuesOfKey(doc.items, doc.items[i].keys[k])))

\* C8: in both forms a value that is no number is dropped alone
\* and the numbers of its column are kept.
C8_NonNumericValueDroppedAlone ==
    pc = "convert" =>
        /\ RecordsKeepNumbers
        /\ IsMappingForm =>
              \A i \in 1..Len(doc.keys) :
                 Lower(doc.keys[i]) \notin MetadataKeys =>
                    HasColumn(doc.keys[i], Numbers(doc.items[i].items))

\* the cells over CsvAlphabet that float() converts: ones between blanks
NumericCells ==
    LET run(c, k) == [i \in 1..k |-> c]
    IN  {run(" ", a) \o run("1", k) \o run(" ", b) :
            a \in 0..MaxLen, k \in 1..MaxLen, b \in 0..MaxLen}

FirstRowHasText == \E i \in 1..Len(rows[1]) : rows[1][i] \notin NumericCells

\* C10: the first row is a header exactly when one of its cells
\* is no number, whatever the number of rows.
C10_HeaderIffFirstRowHasText ==
    (pc = "convert" /\ rows # <<>>) => (has_header <=> FirstRowHasText)

-----------------------------------------------------------------------------
(* Claims about the wrappers and the server                                *)

InStack(w) == \E i \in 1..Len(stack) : stack[i] = w

\* C1: once the error handling wrapper has returned from a call whose tool
\* function raised, the outcome is a returned result that carries the error
\* flag and the message of the exception; nothing is left raised.
C1_ExceptionBecomesErrorResult ==
    (/\ flags.with_error_handling
     /\ called
     /\ body.raises
     /\ pc \in {"return", "done"}
     /\ ~InStack("with_error_handling")) =>
        /\ outcome.kind = "returned"
        /\ outcome.isError
        /\ outcome.prefix = PrefixError
        /\ outcome.msg = body.msg

C1_Witness ==
    /\ pc = "done"
    /\ flags.with_error_handling
    /\ called
    /\ body.raises
    /\ body.msg # ""
    /\ outcome.kind = "returned"
    /\ outcome.isError
    /\ outcome.msg = body.msg

\* the call failed: the tool is unknown, its data is missing, or the
\* estimator raised
ServerCallFailed ==
    \/ tool_name \notin ToolNames
    \/ ~called
    \/ body.raises

\* C2: a call of the server's handler that failed ends in a response that
\* carries the error flag.
C2_FailedCallCarriesErrorFlag ==
    (pc = "done" /\ tool_name # "" /\ ServerCallFailed) => outcome.isError

\* the wrappers the flags ask for, in the order logging, file input, error
\* handling, tool function
NestingOrder ==
    SelectSeq(<<"with_logging", "with_file_input", "with_error_handling", "func">>,
              LAMBDA w : \/ w = "func"
                         \/ w = "with_logging" /\ flags.with_logging
                         \/ w = "with_file_input" /\ flags.with_file_support
                         \/ w = "with_error_handling" /\ flags.with_error_handling)

IsFileEvent(e) ==
    e.event \in {"file path detected", "file content detected", "file parsed",
                 "data converted", "file parse failed"}

\* C3: the wrappers in progress are always the first of the nesting order
\* logging, file input, error handling; with logging on, nothing is logged
\* before the started notice; and when the tool function has been called for
\* a call that names a file, the file has been parsed and reshaped.
C3_LoggingThenFileInputThenErrorHandling ==
    /\ Len(stack) <= Len(NestingOrder)
    /\ stack = SubSeq(NestingOrder, 1, Len(stack))
    /\ (flags.with_logging /\ log # <<>>) => log[1] = Info("started")
    /\ (called /\ flags.with_file_support /\ HasFile(kwargs)) =>
          /\ converted.ok
          /\ \E i \in 1..Len(log) : log[i] = Info("data converted")
          /\ \A i \in 1..Len(log) : log[i].event = "completed" =>
                \A j \in 1..Len(log) : IsFileEvent(log[j]) => j < i

C3_Witness ==
    /\ pc = "done"
    /\ flags.with_logging /\ flags.with_file_support /\ flags.with_error_handling
    /\ called
    /\ converted.ok
    /\ Len(log) = 5
    /\ log[1] = Info("started")
    /\ log[4] = Info("data converted")

CountEvents(event) == Cardinality({i \in 1..Len(log) : log[i] = Info(event)})

\* C4: when a call of a tool wrapped with logging is over, one started
\* notice and one completed notice have been sent, the first before the
\* second, whatever the flags and however the call ended.
C4_OneStartedThenOneCompleted ==
    (pc = "done" /\ flags.with_logging) =>
        /\ CountEvents("started") = 1
        /\ CountEvents("completed") = 1
        /\ log[1] = Info("started")
        /\ log[Len(log)] = Info("completed")

\* C5: when the file of a call was parsed and reshaped, the tool function
\* receives every reshaped keyword argument with the value from the file.
C5_FileValuesOverrideCallers ==
    (called /\ flags.with_file_support /\ converted.ok) =>
        \A k \in DOMAIN converted.kw : passed[k] = converted.kw[k]

\* the caller passed another value for a parameter the file gives
C5_Witness ==
    /\ called
    /\ flags.with_file_support
    /\ converted.ok
    /\ \E k \in DOMAIN converted.kw \cap DOMAIN kwargs :
          kwargs[k] # converted.kw[k] /\ passed[k] = converted.kw[k]
    /\ \E k \in DOMAIN kwargs \ DOMAIN converted.kw : passed[k] = kwargs[k]

-----------------------------------------------------------------------------
(* Claims about the classification of a dataset                            *)

\* every time keyword and every entity keyword holds one of these letters
KeywordLetters == {"d", "e", "i", "o", "D", "E", "I", "O"}

\* a name that can hold no keyword
Tokenless(var) == \A i \in 1..Len(var) : var[i] \notin KeywordLetters

\* C11: a parsed dataset of two columns or more, none of whose names holds an
\* entity keyword or a time keyword, is classified multivariate.
C11_TokenlessColumnsAreMultivariate ==
    (/\ pc = "convert"
     /\ parsed.ok
     /\ parsed.n_variables >= 2
     /\ \A i \in 1..Len(parsed.variables) : Tokenless(parsed.variables[i])) =>
        parsed.data_type = "multivariate"

\* the names of ColumnNames that hold an entity keyword, a time keyword
EntityNames == {<<"i", "d">>, <<"F", "i", "r", "m">>, <<"h", "o", "l", "i", "d", "a", "y">>}
TimeNames == {<<"y", "e", "a", "r">>, <<"h", "o", "l", "i", "d", "a", "y">>}

HasBothTokens(data) ==
    /\ \E i \in 1..Len(data) : data[i].name \in EntityNames
    /\ \E i \in 1..Len(data) : data[i].name \in TimeNames

\* the column taken out holds an entity keyword or a time keyword
RemovedToken ==
    /\ pc = "done"
    /\ args.data[result.removed].name \in EntityNames \cup TimeNames

\* C12 as stated: a dataset whose names hold both kinds of keyword is a
\* panel, and what is left of it after a column holding a keyword is taken
\* out is a time series or multivariate.
C12_PanelThenTimeSeriesOrMultivariate ==
    (pc \in {"remove", "done"} /\ "data" \in DOMAIN args /\ HasBothTokens(args.data)) =>
        /\ result.data_type = "panel"
        /\ RemovedToken => result.reduced_type \in {"time_series", "multivariate"}

\* C12 amended: a dataset of one column is univariate whatever its name; a
\* dataset of two columns or more whose names hold both kinds of keyword is
\* a panel; what is left of a panel after a column holding a keyword is taken
\* out is univariate when one column is left, a panel when the names left
\* hold both kinds of keyword, and a time series or multivariate otherwise.
C12_PanelOfTwoColumnsThenByWhatIsLeft ==
    (pc \in {"remove", "done"} /\ "data" \in DOMAIN args) =>
        /\ Len(args.data) = 1 => result.data_type = "univariate"
        /\ (Len(args.data) >= 2 /\ HasBothTokens(args.data)) =>
              result.data_type = "panel"
        /\ (RemovedToken /\ result.data_type = "panel") =>
              LET left == Without(args.data, result.removed)
              IN  IF Len(left) = 1 THEN result.reduced_type = "univariate"
                  ELSE IF HasBothTokens(left) THEN result.reduced_type = "panel"
                  ELSE result.reduced_type \in {"time_series", "multivariate"}

C12_Witness ==
    /\ RemovedToken
    /\ Len(args.data) >= 3
    /\ result.data_type = "panel"
    /\ result.reduced_type = "time_series"


(* Claims about the panel shape *)
\* the first column whose name is in S, 0 when there is none
FirstIn(variables, S) ==
    IF \E i \in 1..Len(variables) : variables[i] \in S
    THEN CHOOSE i \in 1..Len(variables) :
            /\ variables[i] \in S
            /\ \A j \in 1..(i - 1) : variables[j] \notin S
    ELSE 0

\* the names of the columns other than columns e and t, in order
Remaining(variables, e, t) ==
    LET RECURSIVE rest(_)
        rest(i) == IF i > Len(variables) THEN <<>>
                   ELSE (IF i \in {e, t} THEN <<>> ELSE <<variables[i]>>) \o rest(i + 1)
    IN  rest(1)

\* C13: the panel shape takes the first column matching an entity keyword as
\* entity_ids, the first matching a time keyword as time_periods, the last
\* remaining column as the dependent variable and the other remaining columns
\* as independent variables, and it fails exactly when there is no entity
\* column, no time column, or fewer than two remaining columns.
C13_PanelRolesAndFailsExactlyWhenIncomplete ==
    (pc = "done" /\ tool_type = "panel" /\ parsed.ok) =>
        LET variables == parsed.variables
            e == FirstIn(variables, EntityNames)
            t == FirstIn(variables, TimeNames)
            left == Remaining(variables, e, t)
        IN  /\ converted.ok <=> (e # 0 /\ t # 0 /\ Len(left) >= 2)
            /\ converted.ok =>
                  /\ converted.kw.entity_ids = IdText(parsed.data[e].vals)
                  /\ converted.kw.time_periods = IdText(parsed.data[t].vals)
                  /\ converted.kw.y_variable = left[Len(left)]
                  /\ converted.kw.feature_names = SubSeq(left, 1, Len(left) - 1)


(* Claims about a call that names a file twice *)
\* with_file_input has looked at the file arguments of the call
FileInputActed ==
    \E i \in 1..Len(log) :
        log[i] \in {Info("file path detected"), Info("file content detected")}

\* C14: when a call gives both file_content and file_path the content is
\* what is parsed and used, and the path is not read: no notice announces
\* the path, and once the parse has run its result is that of the content.
C14_ContentBeforePath ==
    (/\ kwargs # <<>> /\ kwargs.file_path # <<>> /\ kwargs.file_content # <<>>
     /\ FileInputActed) =>
        /\ \A i \in 1..Len(log) : log[i] # Info("file path detected")
        /\ pc # "file_parse" =>
              parsed = ParseFileContent(kwargs.file_content, NoDoc,
                                        kwargs.file_format)


(* Claims about empty content *)
\* C15: parsing empty content with the declared format csv fails with the
\* message that the CSV file is empty.
C15_EmptyCsvIsReportedEmpty ==
    (pc = "convert" /\ content = <<>> /\ file_format = "csv") =>
        /\ ~parsed.ok
        /\ parsed.msg = MsgCsvEmpty


(* Claims about validation *)
\* the call hands a value to validation that validation rejects
FailsValidation ==
    /\ args.data_type = "econometric"
    /\ \/ /\ args.positional # <<>>
          /\ ~EconometricDataValid(args.positional[1])
       \/ \E i \in 1..Len(args.keywords) :
             /\ args.keywords[i].key \in ValidatedKeys
             /\ ~EconometricDataValid(args.keywords[i].value)

\* C16: with strict validation on, a call whose input fails validation
\* raises a data validation error and the function is not called; with strict
\* validation off, the function is called with the same input, unchanged, and
\* a warning is given instead of an error.
C16_StrictRaisesLenientWarnsAndPasses ==
    (pc = "done" /\ FailsValidation) =>
        IF args.strict
        THEN /\ result.raised
             /\ result.exc = "DataValidationError"
             /\ ~result.called
        ELSE /\ ~result.raised
             /\ result.called
             /\ result.func_args = args.positional
             /\ result.func_kwargs = args.keywords
             /\ result.warnings # <<>>

C16_Witness ==
    /\ pc = "done"
    /\ FailsValidation
    /\ ~args.strict
    /\ result.called
    /\ result.func_kwargs = args.keywords
    /\ Len(result.warnings) >= 2


(* Claims about the result records of the estimators *)
\* C17: every result record of ols_regression and gmm_estimation, the one of
\* the single-observation branch included, has coefficients, standard
\* errors, t-values, p-values, confidence bounds and feature names of one
\* length, and n_obs equal to the number of observations given.
C17_ListsOfOneLengthAndObservationsCounted ==
    (pc = "done" /\ "estimator" \in DOMAIN args /\ ~result.raised) =>
        /\ result.std_errors = result.coefficients
        /\ result.t_values = result.coefficients
        /\ result.p_values = result.coefficients
        /\ result.conf_int_lower = result.coefficients
        /\ result.conf_int_upper = result.coefficients
        /\ Len(result.feature_names) = result.coefficients
        /\ result.n_obs = args.n


(* Claims about enumerated options *)
\* the options each function documents
Documented(estimator) ==
    CASE estimator = "mle_estimation" -> {"normal", "poisson", "exponential"}
      [] estimator = "regularized_regression" -> {"ridge", "lasso", "elastic_net"}
      [] estimator = "robust_errors_regression" -> {"HC0", "HC1", "HC2", "HC3"}

\* C18: a call of mle_estimation, regularized_regression or
\* robust_errors_regression with an option outside the documented set ends
\* in an error, never in a result.
C18_UndocumentedOptionIsRejected ==
    (/\ pc = "done" /\ "option" \in DOMAIN args
     /\ args.option \notin Documented(args.estimator)) =>
        result.raised


(* Claims about the unit root tests *)
\* C19: in every result of adf_test, pp_test and kpss_test, a fallback
\* result included, the stationarity flag agrees with the p-value: for ADF
\* and PP it is true exactly when p < 0.05, for KPSS exactly when p > 0.05.
C19_FlagAgreesWithPValue ==
    (pc = "done" /\ "test" \in DOMAIN args /\ ~result.raised) =>
        IF args.test = "kpss_test"
        THEN result.stationary <=> result.p_value > 50
        ELSE result.stationary <=> result.p_value < 50

\* C20: adf_test, pp_test and kpss_test raise nothing: whatever the input,
\* a call in which the library fails ends in the fixed record of the test.
C20_LibraryFailureGivesTheFixedRecord ==
    (pc = "done" /\ "test" \in DOMAIN args /\ ~args.library.ok) =>
        /\ ~result.raised
        /\ result.fallback
        /\ result.test_type = TestType(args.test)


(* Claims about the dynamic panel models *)
\* C21: diff_gmm_model and sys_gmm_model never reach the fit with an
\* (entity, time) pair given twice or with sequences of different lengths;
\* every failure is a raised error with the wrapping prefix of the function;
\* and what is returned is the record of the fit, never a placeholder.
C21_CheckedBeforeFitAndFailuresWrapped ==
    (pc = "done" /\ "model" \in DOMAIN args) =>
        /\ (args.duplicate \/ ~AllEqual(Lengths(args))) =>
              /\ result.raised
              /\ ~result.fit_called
        /\ result.raised =>
              /\ result.exc = "ValueError"
              /\ result.prefix = IF args.model = "diff_gmm_model"
                                 THEN PrefixDiffGmm ELSE PrefixSysGmm
        /\ ~result.raised => result.fit_called /\ args.library = "ok"


(* Claims about the J statistic *)
\* the call gives as many instrument columns as regressor columns
\* (instruments=None uses the regressors as instruments)
JustIdentified == args.z_cols = 0 \/ args.z_cols = args.k

\* C22: whenever gmm_estimation returns a result for a call with as many
\* instrument columns as regressor columns, the p-value of the J statistic
\* is exactly 1.0, whatever the data and whichever path computed it.
C22_JustIdentifiedJPValueIsOne ==
    (/\ pc = "done" /\ "estimator" \in DOMAIN args /\ args.estimator = "gmm"
     /\ ~result.raised /\ JustIdentified) =>
        result.j_p_value = 1000

C22_Witness ==
    /\ pc = "done"
    /\ "estimator" \in DOMAIN args
    /\ args.estimator = "gmm"
    /\ ~result.raised
    /\ args.n >= 2
    /\ args.z_cols = args.k
    /\ args.library = "fallback"
    /\ args.chi2_p # 1000
    /\ result.j_p_value = 1000


(* Claims about coordinate descent *)
\* the loop has run at most 2000 rounds, goes on only after a round that
\* changed some coefficient by 1e-6 or more, and has ended only after such
\* a round was missing or the 2000th round was run
DescentBounded ==
    /\ result.iteration <= 2000
    /\ pc = "loop" =>
          /\ result.iteration < 2000
          /\ result.iteration > 0 => result.max_change >= 10
    /\ pc = "done" =>
          /\ result.returned
          /\ result.iteration >= 1
          /\ result.max_change < 10 \/ result.iteration = 2000

\* C23: the loops of the lasso and of the elastic net run at most 2000
\* rounds, stop as soon as the largest change of a round is below 1e-6, and
\* end for every input.
C23_AtMostMaxIterRoundsAndTerminates ==
    /\ []DescentBounded
    /\ <>(pc = "done")

C23_Witness ==
    /\ pc = "done"
    /\ result.iteration = 2000
    /\ result.max_change >= 10


(* Claims about the entry points *)
\* C24: no launcher or server entry point writes startup or diagnostic text
\* to standard output; every banner goes to standard error.
C24_NothingOnStandardOutput ==
    pc = "done" /\ "entry" \in DOMAIN args => result.stdout = <<>>

\* C25: started without a transport flag, the launcher runs the server on
\* the pipe (stdio) transport.
C25_DefaultTransportIsStdio ==
    /\ pc = "done"
    /\ "entry" \in DOMAIN args
    /\ args.entry \in {"serve", "package_main"}
    /\ args.transport = ""
    => result.transport = "stdio"


(* Claims about the registered tools *)
\* C26: a registered regression, single_var or panel tool called with a file
\* content that parses and reshapes is executed: every keyword the reshaping
\* adds is a parameter of the tool, and the call is no error response.
C26_ReshapedArgumentsAreParameters ==
    (/\ pc = "done"
     /\ tool_name \in RegisteredTools
     /\ tool_type \in {"regression", "single_var", "panel"}
     /\ parsed.ok
     /\ converted.ok) =>
        /\ called
        /\ Unexpected(tool_name, passed) = {}
        /\ ~body.raises => ~outcome.isError


(* Claims about a file that cannot be resolved *)
\* the parse of the file the call names has raised, or its reshaping has
FileFailed ==
    /\ flags.with_file_support
    /\ FileInputActed
    /\ \/ pc # "file_parse" /\ ~parsed.ok
       \/ parsed.ok /\ pc # "file_convert" /\ ~converted.ok

\* C27: when parsing or reshaping fails in with_file_input the tool body is
\* not executed, and the call returns one error-flagged response that
\* describes the parse failure.
C27_FailedFileNeverReachesTheBody ==
    FileFailed =>
        /\ ~called
        /\ Cardinality({i \in 1..Len(log) : log[i].level = "error"}) = 1
        /\ pc \in {"file_error", "return", "logged", "done"}
        /\ pc # "file_error" =>
              /\ outcome.kind = "returned"
              /\ outcome.isError
              /\ outcome.prefix = "file parse error: "
              /\ outcome.msg = IF parsed.ok THEN converted.msg ELSE parsed.msg

C27_Witness ==
    /\ pc = "done"
    /\ FileFailed
    /\ parsed.ok
    /\ outcome.isError


(* Claims about the agreement of classification and panel reshaping *)
\* C28: a parsed record that shape classification labels panel is not
\* refused by the panel reshaping for lack of an entity column or a time
\* column.
C28_PanelLabelHasBothRoles ==
    (pc = "done" /\ tool_type = "panel" /\ parsed.ok
     /\ parsed.data_type = "panel") =>
        ~(~converted.ok /\ converted.msg = MsgPanelNoIds)


(* Claims about cross-validation *)
\* C29: with 2 <= folds <= n the test folds are a partition of the
\* observations: each observation is in the test set of exactly one fold,
\* also when folds are skipped.
C29_TestFoldsPartitionTheObservations ==
    (/\ pc = "done"
     /\ "folds" \in DOMAIN args
     /\ 2 <= args.folds /\ args.folds <= args.n) =>
        \A obs \in 1..args.n :
           Cardinality({k \in 1..Len(result.tests) :
                           obs \in result.tests[k]}) = 1


(* Claims about the data loader *)
\* C30: load_data_if_path returns a mapping or raises; for an input that is
\* neither a mapping nor a string it raises a type error and never returns
\* without a value.
C30_LoadDataReturnsMappingOrRaises ==
    (/\ pc = "done"
     /\ "loader" \in DOMAIN args
     /\ args.loader = "load_data_if_path") =>
        /\ result.raised \/ result.value = "dict"
        /\ args.kind \notin {"dict", "str"} =>
              result.raised /\ result.exc = "TypeError"

=============================================================================
